---- MODULE Spec2Model ----
(***************************************************************************)
(* A state-machine model of the ITMS repository: the Django views over     *)
(* reservations, help-desk tickets and software licenses, the permission   *)
(* group seeding, the REST token login/logout, and the e-mail service of   *)
(* the prototype API.  Each subsystem has its own next-state relation and  *)
(* specification over the shared variables.                                *)
(***************************************************************************)
EXTENDS Integers, Sequences, FiniteSets, Bags, TLC

VARIABLES
    now,            \* the wall clock, in whole seconds (timezone.now())
    reservations,   \* the rows of the Reservation table
    tickets,        \* the rows of the HelpDeskTicket table
    nextId,         \* the auto-increment primary keys, per table
    budget,         \* rows the model still lets the tables take
    reqs,           \* create_reservation_view requests handled concurrently
    resp,           \* what the last handler answered
    licenses,       \* the rows of the SoftwareLicense table
    installations,  \* the rows of the SoftwareInstallation table
    groups,         \* the rows of the auth Group table
    group_permissions,  \* the rows of Group.permissions, a bag of
                        \* <<group id, permission>>
    user_groups,    \* the rows of User.groups, <<username, group id>>
    tokens,         \* the rows of the REST framework's Token table
    revoked,        \* history: the keys of the tokens api_logout deleted
    mail,           \* the last call of the EmailService: its arguments, the
                    \* SMTP sends it made and how it ended
    MOCK_USERS,     \* the prototype API's user store, by key
    MOCK_BOOKINGS,  \* the prototype API's booking store, by booking id
    MOCK_ASSETS,    \* the prototype API's asset store, by asset id
    MOCK_TICKETS,   \* the prototype API's ticket store, by ticket id
    calls,          \* calls of the prototype API made so far
    MOCK_AUDIT_LOGS,  \* the prototype API's audit trail, a list of entries
    logged          \* entries log_activity has made so far

vars == <<now, reservations, tickets, nextId, budget, reqs, resp,
          licenses, installations, groups, group_permissions, user_groups,
          tokens, revoked, mail,
          MOCK_USERS, MOCK_BOOKINGS, MOCK_ASSETS, MOCK_TICKETS, calls,
          MOCK_AUDIT_LOGS, logged>>

\* the variables of the reservation and ticket views, but nextId and resp
bookingVars == <<now, reservations, tickets, budget, reqs>>

\* the variables of the license views
licenseVars == <<licenses, installations>>

\* the variables of the permission groups
seedVars == <<groups, group_permissions, user_groups>>

\* the variables of the REST login
tokenVars == <<tokens, revoked>>

\* the stores of the prototype API
mockVars == <<MOCK_USERS, MOCK_BOOKINGS, MOCK_ASSETS, MOCK_TICKETS, calls,
              MOCK_AUDIT_LOGS, logged>>

\* what the reservation and ticket handlers never touch
outsideBooking == <<licenseVars, seedVars, tokenVars, mail, mockVars>>

\* what the license handlers never touch
outsideLicense == <<bookingVars, seedVars, tokenVars, mail, mockVars>>

\* what the permission commands never touch
outsideSeed == <<bookingVars, licenseVars, tokenVars, mail, mockVars>>

\* what the REST login never touches
outsideToken == <<bookingVars, licenseVars, seedVars, mail, mockVars>>

\* what the e-mail service never touches
outsideMail ==
    <<bookingVars, licenseVars, seedVars, tokenVars, nextId, resp, mockVars>>

\* what the handlers of the prototype API never touch
outsideMock ==
    <<bookingVars, licenseVars, seedVars, tokenVars, nextId, mail>>

-----------------------------------------------------------------------------
(* Bounds of the model                                                     *)

MaxTime == 2            \* datetimes submitted in forms range over 0..MaxTime
MaxNow == 1             \* seconds the clock may advance
MaxReservations == 2    \* rows a behaviour of the reservation views may add
MaxSaves == 2           \* rows a behaviour of the numbering model may add

\* what a handler answers: the operation, its outcome, and the error
\* messages it reports
Response(op, outcome) == [op |-> op, outcome |-> outcome, errors |-> {}]
Rejection(op, errors) == [op |-> op, outcome |-> "rejected", errors |-> errors]

Times == 0..MaxTime
NoTime == -1            \* a datetime field that is missing or does not parse
Assets == {1, 2}        \* ids of the Asset rows
NoAsset == 0            \* an asset id that matches no Asset row
Users == {"alice", "bob", "staff"}
IsStaff(u) == u = "staff"
NoUser == "none"

-----------------------------------------------------------------------------
(* Number generation: HelpDeskTicket.save and Reservation.save             *)

\* A number is <<prefix, timestamp, suffix>>: the prefix "TK" or "RSV", the
\* second the strftime('%Y%m%d%H%M%S') text stands for, and the digits that
\* follow it (none, three for a counter, four for the random fallback).
CounterLimit == 999
RandMin == 1000
RandMax == 9999

\* f"{counter:03d}": at least three digits, zero padded
Format03d(c) ==
    IF c < 1000
    THEN <<c \div 100, (c \div 10) % 10, c % 10>>
    ELSE <<c \div 1000, (c \div 100) % 10, (c \div 10) % 10, c % 10>>

\* the values random.randint(1000, 9999) is drawn from in the model
MaxRand == 2
RandomValues == (RandMin..(RandMin + MaxRand - 1)) \cup {RandMax}

\* the values a second timezone.now() within one save() may return
ClockReads == {now, now + 1}

\* the loop started at counter 1, so that the first suffix tried is 002
LoopExitFromTwo(prefix, stored, ts) ==
    CHOOSE c \in 2..(CounterLimit + 1) :
        /\ c <= Cardinality(stored) + 2
        /\ c <= CounterLimit => <<prefix, ts, Format03d(c)>> \notin stored
        /\ \A d \in 2..(c - 1) : <<prefix, ts, Format03d(d)>> \in stored

\* The while loop of save(), entered when the base number is stored already:
\* the value of `counter` when the loop ends.  It ends at the first counter
\* whose candidate base + f"{counter:03d}" is not stored, or by the safety
\* break once the counter exceeds CounterLimit.  The candidates of all
\* smaller counters are stored then, so the counter is at most one more than
\* the numbers stored (taking the cardinality first also leaves the set
\* sorted, which makes the membership tests binary searches).
LoopExit(prefix, stored, ts) ==
    CHOOSE c \in 1..(CounterLimit + 1) :
        /\ c <= Cardinality(stored) + 1
        /\ c <= CounterLimit => <<prefix, ts, Format03d(c)>> \notin stored
        /\ \A d \in 1..(c - 1) : <<prefix, ts, Format03d(d)>> \in stored

\* The number save() assigns to a row saved without one.  ts is the clock
\* when the base is formatted; ts2 is the clock read again and rnd the
\* random.randint draw, both used by the safety break only.
GenerateNumber(prefix, stored, ts, ts2, rnd) ==
    IF <<prefix, ts, <<>>>> \notin stored
    THEN <<prefix, ts, <<>>>>
    ELSE LET counter == LoopExit(prefix, stored, ts)
         IN  IF counter > CounterLimit
             THEN <<prefix, ts2, Format03d(rnd)>>
             ELSE <<prefix, ts, Format03d(counter)>>

\* whether save() takes the safety break, the only place that reads the
\* clock a second time and draws a random number
TakesSafetyBreak(prefix, stored, ts) ==
    /\ <<prefix, ts, <<>>>> \in stored
    /\ LoopExit(prefix, stored, ts) > CounterLimit

\* the <<ts2, rnd>> pairs one save() may see
Draws(prefix, stored, ts) ==
    IF TakesSafetyBreak(prefix, stored, ts)
    THEN ClockReads \X RandomValues
    ELSE {<<ts, RandMin>>}

TicketNumber(stored, ts, ts2, rnd) ==
    GenerateNumber("TK", stored, ts, ts2, rnd)

TimestampDigits == 14   \* strftime('%Y%m%d%H%M%S')
NumberMaxLength == 20   \* CharField(max_length=20) of both number fields

\* the number of characters of a number
NumberLength(n) ==
    (IF n[1] = "TK" THEN 2 ELSE 3) + TimestampDigits + Len(n[3])

\* What the database does with a number: one longer than the column is
\* refused by a database that enforces varchar lengths and stored by one
\* that does not; TRUE stands for refusing.
LengthChecks(n) ==
    IF NumberLength(n) > NumberMaxLength THEN BOOLEAN ELSE {FALSE}

ReservationNumber(stored, ts, ts2, rnd) ==
    GenerateNumber("RSV", stored, ts, ts2, rnd)

-----------------------------------------------------------------------------
(* The Reservation table and its views                                     *)

\* Of a Reservation row the model keeps the primary key, the number, the
\* asset, who reserved and who approved it, the status and the interval.
RESERVATION_STATUS_CHOICES ==
    {"pending", "approved", "rejected", "active", "completed", "cancelled"}

\* the check constraint written with gte instead of gt
ReservationCheckGte(row) == row.end_datetime >= row.start_datetime

\* Meta.constraints: CheckConstraint end_datetime_after_start_datetime
ReservationCheckConstraint(row) == row.end_datetime > row.start_datetime

\* reservation_number = CharField(unique=True)
ReservationNumberUnique(rows, row) ==
    \A r \in rows :
        r.id # row.id => r.reservation_number # row.reservation_number

\* super().save(): the database takes the row, or raises IntegrityError or
\* DataError
ReservationDbAccepts(rows, row, refuses_long) ==
    /\ ReservationCheckConstraint(row)
    /\ ReservationNumberUnique(rows, row)
    /\ ~refuses_long

\* Reservation.objects.create(...): save() numbers the new row
NewReservation(rows, id, asset, by, status, start_dt, end_dt, ts, ts2, rnd) ==
    [id |-> id,
     reservation_number |->
         ReservationNumber({r.reservation_number : r \in rows}, ts, ts2, rnd),
     asset |-> asset, reserved_by |-> by, approved_by |-> NoUser,
     status |-> status, start_datetime |-> start_dt, end_datetime |-> end_dt]

\* the conflict query written with inclusive bounds
ConflictsInclusive(rows, asset, start_dt, end_dt) ==
    {r \in rows : /\ r.asset = asset
                  /\ r.status \in {"pending", "approved"}
                  /\ r.start_datetime <= end_dt
                  /\ r.end_datetime >= start_dt}

\* the conflict query of create_reservation_view
Conflicts(rows, asset, start_dt, end_dt) ==
    {r \in rows : /\ r.asset = asset
                  /\ r.status \in {"pending", "approved"}
                  /\ r.start_datetime < end_dt
                  /\ r.end_datetime > start_dt}

\* A submitted form: the length of the title, the asset id ("" is EmptyAsset),
\* whether a reservation type is given, and the two datetimes.
EmptyAsset == -1
Forms(titles, assets, rtypes, times) ==
    [title_len : titles, asset : assets, rtype : rtypes,
     start : times, end : times]

\* the `errors` list of create_reservation_view, as the set of its entries
ValidationErrors(rows, f, clock) ==
    (IF f.title_len = 0 THEN {"title_required"}
     ELSE IF f.title_len < 5 THEN {"title_short"} ELSE {})
    \cup (IF f.asset = EmptyAsset THEN {"asset_required"} ELSE {})
    \cup (IF ~f.rtype THEN {"type_required"} ELSE {})
    \cup (IF f.start = NoTime THEN {"start_invalid"} ELSE {})
    \cup (IF f.end = NoTime THEN {"end_invalid"} ELSE {})
    \cup (IF f.start # NoTime /\ f.end # NoTime
          THEN (IF f.end <= f.start THEN {"end_not_after_start"} ELSE {})
               \cup (IF f.start < clock THEN {"start_in_past"} ELSE {})
               \cup (IF f.asset \notin Assets THEN {"asset_missing"}
                     ELSE IF Conflicts(rows, f.asset, f.start, f.end) # {}
                          THEN {"conflict"} ELSE {})
          ELSE {})

\* Asset.objects.get(id='') raises ValueError, which the view does not catch
ConflictQueryCrashes(f) ==
    f.start # NoTime /\ f.end # NoTime /\ f.asset = EmptyAsset

\* create_reservation_view, POST, as one request handled alone
CreateReservation(u, f) ==
    /\ budget > 0
    /\ IF ConflictQueryCrashes(f)
       THEN /\ resp' = Response("create_reservation", "crashed")
            /\ UNCHANGED <<reservations, nextId, budget>>
       ELSE IF ValidationErrors(reservations, f, now) # {}
       THEN /\ resp' = Rejection("create_reservation",
                                 ValidationErrors(reservations, f, now))
            /\ UNCHANGED <<reservations, nextId, budget>>
       ELSE \E d \in Draws("RSV", {r.reservation_number : r \in reservations}, now) :
              \E row \in {NewReservation(reservations, nextId.reservation,
                             f.asset, u, "pending", f.start, f.end,
                             now, d[1], d[2])} :
                  \E refuses \in LengthChecks(row.reservation_number) :
                  IF ReservationDbAccepts(reservations, row, refuses)
                  THEN /\ reservations' = reservations \cup {row}
                       /\ nextId' = [nextId EXCEPT !.reservation = @ + 1]
                       /\ budget' = budget - 1
                       /\ resp' = Response("create_reservation", "created")
                  ELSE /\ resp' = Response("create_reservation", "error")
                       /\ UNCHANGED <<reservations, nextId, budget>>
    /\ UNCHANGED <<now, tickets, reqs>>
    /\ UNCHANGED outsideBooking

\* ReservationAdmin: a row is added through the admin site, for any user and
\* with any asset, status and interval; reservation_number is read-only there
AdminAddReservation(by, asset, status, start_dt, end_dt) ==
    /\ budget > 0
    /\ \E d \in Draws("RSV", {r.reservation_number : r \in reservations}, now) :
         \E row \in {NewReservation(reservations, nextId.reservation, asset, by,
                        status, start_dt, end_dt, now, d[1], d[2])} :
             \E refuses \in LengthChecks(row.reservation_number) :
             IF ReservationDbAccepts(reservations, row, refuses)
             THEN /\ reservations' = reservations \cup {row}
                  /\ nextId' = [nextId EXCEPT !.reservation = @ + 1]
                  /\ budget' = budget - 1
                  /\ resp' = Response("admin_add_reservation", "created")
             ELSE /\ resp' = Response("admin_add_reservation", "error")
                  /\ UNCHANGED <<reservations, nextId, budget>>
    /\ UNCHANGED <<now, tickets, reqs>>
    /\ UNCHANGED outsideBooking

\* can_be_cancelled without the look at the clock
CanBeCancelledAnyTime(r, clock) == r.status \in {"pending", "approved"}

\* Reservation.can_be_cancelled
can_be_cancelled(r, clock) ==
    r.status \in {"pending", "approved"} /\ r.start_datetime > clock

\* what reservation_detail_view answers to a POST, with the request
DetailResponse(outcome, u, id, new_status) ==
    [op |-> "reservation_detail", outcome |-> outcome, errors |-> {},
     user |-> u, reservation_id |-> id, status |-> new_status]

\* reservation_detail_view, POST: the status update
ReservationDetailPost(u, id, new_status) ==
    /\ IF \A r \in reservations : r.id # id
       THEN /\ resp' = DetailResponse("not_found", u, id, new_status)
            /\ UNCHANGED reservations
       ELSE LET r == CHOOSE x \in reservations : x.id = id
                can_update ==
                    \/ IsStaff(u)
                    \/ /\ u = r.reserved_by
                       /\ new_status = "cancelled"
                       /\ can_be_cancelled(r, now)
                updated ==
                    [r EXCEPT !.status = new_status,
                              !.approved_by =
                                  IF new_status = "approved" /\ IsStaff(u)
                                  THEN u ELSE @]
            IN  IF can_update /\ new_status \in RESERVATION_STATUS_CHOICES
                THEN IF ReservationDbAccepts(reservations, updated, FALSE)
                     THEN /\ reservations' =
                                 (reservations \ {r}) \cup {updated}
                          /\ resp' = DetailResponse("updated", u, id,
                                                    new_status)
                     ELSE /\ resp' = DetailResponse("crashed", u, id,
                                                    new_status)
                          /\ UNCHANGED reservations
                ELSE /\ resp' = DetailResponse("denied", u, id, new_status)
                     /\ UNCHANGED reservations
    /\ UNCHANGED <<now, tickets, nextId, budget, reqs>>
    /\ UNCHANGED outsideBooking

\* a second passes
Tick ==
    /\ now <= MaxNow
    /\ now' = now + 1
    /\ UNCHANGED <<reservations, tickets, nextId, budget, reqs, resp>>
    /\ UNCHANGED outsideBooking

-----------------------------------------------------------------------------
(* create_reservation_view handled by concurrent workers                   *)

\* Each worker runs the view's statements in order; the conflict query and
\* the insert are separate database statements with no transaction or lock
\* around them, so other workers' statements may run in between.
Procs == {1, 2}
NullForm == [title_len |-> 0, asset |-> EmptyAsset, rtype |-> FALSE,
             start |-> NoTime, end |-> NoTime]
IdleReq == [pc |-> "idle", user |-> NoUser, form |-> NullForm,
            outcome |-> "none"]

\* lines 643-712: read the form, validate it, run the conflict query
ReceiveCreate(p, u, f) ==
    /\ reqs[p].pc = "idle"
    /\ reqs' = [reqs EXCEPT ![p] =
                   IF ConflictQueryCrashes(f)
                   THEN [pc |-> "done", user |-> u, form |-> f,
                         outcome |-> "crashed"]
                   ELSE IF ValidationErrors(reservations, f, now) # {}
                   THEN [pc |-> "errors", user |-> u, form |-> f,
                         outcome |-> "none"]
                   ELSE [pc |-> "valid", user |-> u, form |-> f,
                         outcome |-> "none"]]
    /\ UNCHANGED <<now, reservations, tickets, nextId, budget, resp>>
    /\ UNCHANGED outsideBooking

\* lines 714-740: report the errors, or insert the row
CompleteCreate(p) ==
    /\ reqs[p].pc \in {"errors", "valid"}
    /\ IF reqs[p].pc = "errors"
       THEN /\ reqs' = [reqs EXCEPT ![p].pc = "done",
                                    ![p].outcome = "rejected"]
            /\ UNCHANGED <<reservations, nextId, budget>>
       ELSE \E d \in Draws("RSV", {r.reservation_number : r \in reservations}, now) :
              \E row \in {NewReservation(reservations, nextId.reservation,
                             reqs[p].form.asset, reqs[p].user, "pending",
                             reqs[p].form.start, reqs[p].form.end,
                             now, d[1], d[2])} :
                  \E refuses \in LengthChecks(row.reservation_number) :
                  IF ReservationDbAccepts(reservations, row, refuses)
                  THEN /\ reservations' = reservations \cup {row}
                       /\ nextId' = [nextId EXCEPT !.reservation = @ + 1]
                       /\ budget' = budget - 1
                       /\ reqs' = [reqs EXCEPT ![p].pc = "done",
                                               ![p].outcome = "created"]
                  ELSE /\ reqs' = [reqs EXCEPT ![p].pc = "done",
                                               ![p].outcome = "error"]
                       /\ UNCHANGED <<reservations, nextId, budget>>
    /\ UNCHANGED <<now, tickets, resp>>
    /\ UNCHANGED outsideBooking

-----------------------------------------------------------------------------
(* The HelpDeskTicket table, create_ticket_view and the REST viewset       *)

\* Of a HelpDeskTicket row the model keeps the primary key and the number.

\* ticket_number declared without unique=True
TicketNumberUnchecked(rows, row) == TRUE

\* ticket_number = CharField(unique=True): the database's unique index and
\* the serializer's UniqueValidator derived from it
TicketNumberUnique(rows, row) ==
    \A r \in rows : r.id # row.id => r.ticket_number # row.ticket_number

\* HelpDeskTicket.save() of a row that has no number yet
NewTicket(rows, id, ts, ts2, rnd) ==
    [id |-> id,
     ticket_number |-> TicketNumber({r.ticket_number : r \in rows}, ts, ts2, rnd)]

Categories == {1}       \* ids of the Category rows
NoCategory == 0         \* a category id that matches no row
EmptyCategory == -1     \* no category submitted

\* the `errors` list of create_ticket_view, as the set of its entries
TicketErrors(f) ==
    (IF f.title_len = 0 THEN {"title_required"} ELSE {})
    \cup (IF f.desc_len = 0 THEN {"description_required"} ELSE {})
    \cup (IF f.category = EmptyCategory THEN {"category_required"} ELSE {})
    \cup (IF f.title_len < 5 THEN {"title_short"} ELSE {})
    \cup (IF f.desc_len < 10 THEN {"description_short"} ELSE {})

\* create_ticket_view, POST
CreateTicket(u, f) ==
    /\ budget > 0
    /\ IF TicketErrors(f) # {}
       THEN /\ resp' = Response("create_ticket", "rejected")
            /\ UNCHANGED <<tickets, nextId, budget>>
       ELSE IF f.category \notin Categories
       THEN /\ resp' = Response("create_ticket", "error")
            /\ UNCHANGED <<tickets, nextId, budget>>
       ELSE \E d \in Draws("TK", {r.ticket_number : r \in tickets}, now) :
              \E row \in {NewTicket(tickets, nextId.ticket, now, d[1], d[2])} :
                  IF TicketNumberUnique(tickets, row)
                  THEN /\ tickets' = tickets \cup {row}
                       /\ nextId' = [nextId EXCEPT !.ticket = @ + 1]
                       /\ budget' = budget - 1
                       /\ resp' = Response("create_ticket", "created")
                  ELSE /\ resp' = Response("create_ticket", "error")
                       /\ UNCHANGED <<tickets, nextId, budget>>
    /\ UNCHANGED <<now, reservations, reqs>>
    /\ UNCHANGED outsideBooking

\* HelpDeskTicketViewSet.create: the client supplies ticket_number, which
\* the serializer requires
ApiCreateTicket(number) ==
    /\ budget > 0
    /\ \E row \in {[id |-> nextId.ticket, ticket_number |-> number]} :
           IF TicketNumberUnique(tickets, row)
           THEN /\ tickets' = tickets \cup {row}
                /\ nextId' = [nextId EXCEPT !.ticket = @ + 1]
                /\ budget' = budget - 1
                /\ resp' = Response("api_create_ticket", "created")
           ELSE /\ resp' = Response("api_create_ticket", "rejected")
                /\ UNCHANGED <<tickets, nextId, budget>>
    /\ UNCHANGED <<now, reservations, reqs>>
    /\ UNCHANGED outsideBooking

\* HelpDeskTicketViewSet.update: the client may change ticket_number
ApiUpdateTicket(id, number) ==
    /\ \E r \in tickets :
         /\ r.id = id
         /\ \E row \in {[r EXCEPT !.ticket_number = number]} :
                IF TicketNumberUnique(tickets, row)
                THEN /\ tickets' = (tickets \ {r}) \cup {row}
                     /\ resp' = Response("api_update_ticket", "updated")
                ELSE /\ resp' = Response("api_update_ticket", "rejected")
                     /\ UNCHANGED tickets
    /\ UNCHANGED <<now, reservations, nextId, budget, reqs>>
    /\ UNCHANGED outsideBooking

-----------------------------------------------------------------------------
(* SoftwareLicense and SoftwareInstallation: the views and the REST API    *)

\* Of a SoftwareLicense row the model keeps the primary key and the two
\* counters; of a SoftwareInstallation row the primary key, the license and
\* the asset.

MaxCount == 2       \* installation counts range over 0..MaxCount
MaxLicenses == 1    \* SoftwareLicense rows a behaviour may create
MaxInstalls == 2    \* SoftwareInstallation rows a behaviour may create

Counts == 0..MaxCount
NoRow == 0          \* a primary key that matches no row

\* SoftwareLicense.available_installations
available_installations(l) == l.max_installations - l.current_installations

\* get_object_or_404(SoftwareLicense, id=license_id)
LicenseExists(id) == \E l \in licenses : l.id = id
LicenseById(id) == CHOOSE l \in licenses : l.id = id

\* unique_together = ['software_license', 'asset']
InstalledOn(license_id, asset) ==
    \E i \in installations :
        i.software_license = license_id /\ i.asset = asset

\* the counter after an uninstall
Decremented(l) ==
    IF l.current_installations - 1 > 0 THEN l.current_installations - 1 ELSE 0

\* software_license_detail_view, POST with 'install'
InstallSoftware(license_id, asset) ==
    /\ nextId.installation <= MaxInstalls
    /\ IF ~LicenseExists(license_id)
       THEN /\ resp' = Response("install", "not_found")
            /\ UNCHANGED <<licenses, installations, nextId>>
       ELSE IF asset = EmptyAsset
       THEN /\ resp' = Response("install", "ignored")
            /\ UNCHANGED <<licenses, installations, nextId>>
       ELSE IF asset \notin Assets
       THEN /\ resp' = Response("install", "asset_missing")
            /\ UNCHANGED <<licenses, installations, nextId>>
       ELSE IF InstalledOn(license_id, asset)
       THEN /\ resp' = Response("install", "already_installed")
            /\ UNCHANGED <<licenses, installations, nextId>>
       ELSE IF available_installations(LicenseById(license_id)) > 0
       THEN /\ installations' = installations \cup
                    {[id |-> nextId.installation,
                      software_license |-> license_id, asset |-> asset]}
            /\ licenses' = (licenses \ {LicenseById(license_id)}) \cup
                    {[LicenseById(license_id)
                         EXCEPT !.current_installations = @ + 1]}
            /\ nextId' = [nextId EXCEPT !.installation = @ + 1]
            /\ resp' = Response("install", "installed")
       ELSE /\ resp' = Response("install", "none_available")
            /\ UNCHANGED <<licenses, installations, nextId>>
    /\ UNCHANGED outsideLicense

\* what the workers of the install requests never touch
outsideInstall ==
    <<now, reservations, tickets, budget, resp,
      seedVars, tokenVars, mail, mockVars>>

\* a worker's install request: where it is, the license object it loaded
\* and the asset it was sent
InstallReq(pc, license, asset, outcome) ==
    [pc |-> pc, license |-> license, asset |-> asset, outcome |-> outcome]

\* software_license_detail_view, POST with 'install', handled by concurrent
\* workers.  Line 912: get_object_or_404 loads the license into the
\* worker's memory
LoadLicense(p, license_id, asset) ==
    /\ reqs[p].pc = "idle"
    /\ reqs' = [reqs EXCEPT ![p] =
                   IF ~LicenseExists(license_id)
                   THEN InstallReq("done", NoRow, asset, "not_found")
                   ELSE InstallReq("loaded", LicenseById(license_id), asset,
                                   "none")]
    /\ UNCHANGED <<licenses, installations, nextId, outsideInstall>>

\* lines 920-933: the asset query, the query for an installation on the
\* asset, and available_installations of the loaded license
CheckInstall(p) ==
    /\ reqs[p].pc = "loaded"
    /\ reqs' = [reqs EXCEPT ![p] =
                   IF reqs[p].asset = EmptyAsset
                   THEN [@ EXCEPT !.pc = "done", !.outcome = "ignored"]
                   ELSE IF reqs[p].asset \notin Assets
                   THEN [@ EXCEPT !.pc = "done", !.outcome = "asset_missing"]
                   ELSE IF InstalledOn(reqs[p].license.id, reqs[p].asset)
                   THEN [@ EXCEPT !.pc = "done",
                                  !.outcome = "already_installed"]
                   ELSE IF available_installations(reqs[p].license) > 0
                   THEN [@ EXCEPT !.pc = "checked"]
                   ELSE [@ EXCEPT !.pc = "done",
                                  !.outcome = "none_available"]]
    /\ UNCHANGED <<licenses, installations, nextId, outsideInstall>>

\* lines 934-940: SoftwareInstallation.objects.create; the table's
\* unique_together refuses a second row of the license and the asset, and the
\* view does not catch the IntegrityError
InsertInstallation(p) ==
    /\ reqs[p].pc = "checked"
    /\ nextId.installation <= MaxInstalls
    /\ IF InstalledOn(reqs[p].license.id, reqs[p].asset)
       THEN /\ reqs' = [reqs EXCEPT ![p].pc = "done",
                                    ![p].outcome = "crashed"]
            /\ UNCHANGED <<installations, nextId>>
       ELSE /\ installations' = installations \cup
                    {[id |-> nextId.installation,
                      software_license |-> reqs[p].license.id,
                      asset |-> reqs[p].asset]}
            /\ nextId' = [nextId EXCEPT !.installation = @ + 1]
            /\ reqs' = [reqs EXCEPT ![p].pc = "created"]
    /\ UNCHANGED <<licenses, outsideInstall>>

\* lines 942-944: the loaded license's counter is incremented and the
\* object saved, every field of the row overwritten by the worker's copy
SaveLicense(p) ==
    /\ reqs[p].pc = "created"
    /\ licenses' = {l \in licenses : l.id # reqs[p].license.id} \cup
            {[reqs[p].license EXCEPT !.current_installations = @ + 1]}
    /\ reqs' = [reqs EXCEPT ![p].pc = "done", ![p].outcome = "installed"]
    /\ UNCHANGED <<installations, nextId, outsideInstall>>

\* software_license_detail_view, POST with 'uninstall'
UninstallSoftware(license_id, installation_id) ==
    /\ IF ~LicenseExists(license_id)
       THEN /\ resp' = Response("uninstall", "not_found")
            /\ UNCHANGED <<licenses, installations>>
       ELSE IF \E i \in installations :
                  i.id = installation_id /\ i.software_license = license_id
       THEN /\ installations' =
                    {i \in installations : i.id # installation_id}
            /\ licenses' = (licenses \ {LicenseById(license_id)}) \cup
                    {[LicenseById(license_id)
                         EXCEPT !.current_installations =
                                    Decremented(LicenseById(license_id))]}
            /\ resp' = Response("uninstall", "uninstalled")
       ELSE /\ resp' = Response("uninstall", "installation_missing")
            /\ UNCHANGED <<licenses, installations>>
    /\ UNCHANGED <<nextId, outsideLicense>>

\* create_software_license_view, POST, its other fields valid:
\* max_installations is a string of digits and must be at least 1;
\* current_installations takes the field's default
CreateLicense(max_installations) ==
    /\ nextId.license <= MaxLicenses
    /\ IF max_installations < 1
       THEN /\ resp' = Response("create_license", "rejected")
            /\ UNCHANGED <<licenses, nextId>>
       ELSE /\ licenses' = licenses \cup
                    {[id |-> nextId.license,
                      max_installations |-> max_installations,
                      current_installations |-> 0]}
            /\ nextId' = [nextId EXCEPT !.license = @ + 1]
            /\ resp' = Response("create_license", "created")
    /\ UNCHANGED <<installations, outsideLicense>>

\* SoftwareLicenseViewSet.create: SoftwareLicenseSerializer takes every
\* model field as sent, the two counters are plain integer fields
ApiCreateLicense(max_installations, current_installations) ==
    /\ nextId.license <= MaxLicenses
    /\ licenses' = licenses \cup
            {[id |-> nextId.license,
              max_installations |-> max_installations,
              current_installations |-> current_installations]}
    /\ nextId' = [nextId EXCEPT !.license = @ + 1]
    /\ resp' = Response("api_create_license", "created")
    /\ UNCHANGED <<installations, outsideLicense>>

\* SoftwareLicenseViewSet.update / partial_update
ApiUpdateLicense(license_id, max_installations, current_installations) ==
    /\ IF ~LicenseExists(license_id)
       THEN /\ resp' = Response("api_update_license", "not_found")
            /\ UNCHANGED licenses
       ELSE /\ licenses' = (licenses \ {LicenseById(license_id)}) \cup
                    {[id |-> license_id,
                      max_installations |-> max_installations,
                      current_installations |-> current_installations]}
            /\ resp' = Response("api_update_license", "updated")
    /\ UNCHANGED <<installations, nextId, outsideLicense>>

\* SoftwareLicenseViewSet.destroy: the installations go with the license
\* (on_delete=CASCADE)
ApiDeleteLicense(license_id) ==
    /\ IF ~LicenseExists(license_id)
       THEN /\ resp' = Response("api_delete_license", "not_found")
            /\ UNCHANGED <<licenses, installations>>
       ELSE /\ licenses' = licenses \ {LicenseById(license_id)}
            /\ installations' =
                    {i \in installations : i.software_license # license_id}
            /\ resp' = Response("api_delete_license", "deleted")
    /\ UNCHANGED <<nextId, outsideLicense>>

\* SoftwareInstallationViewSet.create: the serializer checks the foreign
\* keys and unique_together; the license's counter is not touched
ApiCreateInstallation(license_id, asset) ==
    /\ nextId.installation <= MaxInstalls
    /\ IF \/ ~LicenseExists(license_id)
          \/ asset \notin Assets
          \/ InstalledOn(license_id, asset)
       THEN /\ resp' = Response("api_create_installation", "rejected")
            /\ UNCHANGED <<installations, nextId>>
       ELSE /\ installations' = installations \cup
                    {[id |-> nextId.installation,
                      software_license |-> license_id, asset |-> asset]}
            /\ nextId' = [nextId EXCEPT !.installation = @ + 1]
            /\ resp' = Response("api_create_installation", "created")
    /\ UNCHANGED <<licenses, outsideLicense>>

\* SoftwareInstallationViewSet.destroy: the license's counter is not touched
ApiDeleteInstallation(installation_id) ==
    /\ IF \A i \in installations : i.id # installation_id
       THEN /\ resp' = Response("api_delete_installation", "not_found")
            /\ UNCHANGED installations
       ELSE /\ installations' =
                    {i \in installations : i.id # installation_id}
            /\ resp' = Response("api_delete_installation", "deleted")
    /\ UNCHANGED <<licenses, nextId, outsideLicense>>

-----------------------------------------------------------------------------
(* ITMSPermissionManager and the setup_permissions command                 *)

\* The ContentType table in primary-key order, which is the order in which
\* the apps' models are defined: auth's three models and the first models of
\* itms_app.  The model keeps these six content types of the forty-odd.
ContentTypes ==
    << [app_label |-> "auth", model |-> "permission"],
       [app_label |-> "auth", model |-> "group"],
       [app_label |-> "auth", model |-> "user"],
       [app_label |-> "itms_app", model |-> "category"],
       [app_label |-> "itms_app", model |-> "asset"],
       [app_label |-> "itms_app", model |-> "helpdeskticket"] >>

\* The Permission table: Django's four default permissions of every content
\* type.  A codename such as add_asset is kept as <<"add", "asset">>.  No
\* model declares the custom permissions of ITMSPermissionMixin.
DefaultActions == {"add", "change", "delete", "view"}

Permissions ==
    {[content_type |-> i,
      codename |-> <<a, ContentTypes[i].model>>] :
        i \in DOMAIN ContentTypes, a \in DefaultActions}

\* a permission code 'app.action_name' of PERMISSION_GROUPS
Code(app, action, name) == [app |-> app, action |-> action, name |-> name]

\* the codes 'app.action_name' for several actions
Codes(app, actions, name) == {Code(app, a, name) : a \in actions}

\* PERMISSION_GROUPS in dictionary order, each group with its codes that
\* name a model kept above, a wildcard or a custom permission
PERMISSION_GROUPS ==
    << [name |-> "IT_Administrators",
        permissions |->
            Codes("auth", DefaultActions, "user")
            \cup Codes("auth", DefaultActions, "group")
            \cup Codes("itms_app", DefaultActions, "*")
            \cup Codes("accounts", DefaultActions, "*")
            \cup Codes("itms_app", {"can"}, "approve")
            \cup Codes("itms_app", {"can"}, "export")],
       [name |-> "Asset_Managers",
        permissions |->
            Codes("itms_app", {"add", "change", "view"}, "asset")
            \cup Codes("itms_app", {"add", "change", "view"}, "category")
            \cup Codes("itms_app", {"can"}, "export")],
       [name |-> "Security_Officers",
        permissions |->
            Codes("itms_app", {"view"}, "asset")
            \cup Codes("itms_app", {"can"}, "export")],
       [name |-> "Network_Engineers",
        permissions |->
            Codes("itms_app", {"view"}, "asset")
            \cup Codes("itms_app", {"can"}, "export")],
       [name |-> "Helpdesk_Staff",
        permissions |->
            Codes("itms_app", {"add", "change", "view"}, "helpdeskticket")
            \cup Codes("itms_app", {"view"}, "asset")
            \cup Codes("itms_app", {"view"}, "category")
            \cup Codes("auth", {"view"}, "user")
            \cup Codes("itms_app", {"can"}, "approve")],
       [name |-> "Service_Managers",
        permissions |->
            Codes("itms_app", {"view"}, "asset")
            \cup Codes("itms_app", {"view"}, "category")
            \cup Codes("itms_app", {"can"}, "approve")],
       [name |-> "Backup_Operators",
        permissions |->
            Codes("itms_app", {"view"}, "asset")
            \cup Codes("itms_app", {"can"}, "export")],
       [name |-> "Reports_Viewers",
        permissions |->
            Codes("itms_app", {"view"}, "asset")
            \cup Codes("itms_app", {"view"}, "category")
            \cup Codes("itms_app", {"view"}, "helpdeskticket")
            \cup Codes("itms_app", {"can"}, "export")],
       [name |-> "End_Users",
        permissions |->
            Codes("itms_app", {"add", "view"}, "helpdeskticket")
            \cup Codes("auth", {"view"}, "user")] >>

GroupNames == {PERMISSION_GROUPS[i].name : i \in DOMAIN PERMISSION_GROUPS}

\* ContentType.objects.filter(...).first(): the matching content type of the
\* lowest primary key, 0 for None
FirstContentType(matching) ==
    IF matching = {} THEN 0
    ELSE CHOOSE i \in matching : \A j \in matching : i <= j

\* the content type the code of a specific permission is looked up under
CodeContentType(code) ==
    IF code.app = "auth"
    THEN FirstContentType({i \in DOMAIN ContentTypes :
             /\ ContentTypes[i].app_label = "auth"
             /\ ContentTypes[i].model = code.name})
    ELSE FirstContentType({i \in DOMAIN ContentTypes :
             ContentTypes[i].app_label = code.app})

\* the Permission rows one code of a group adds
Matching(code) ==
    IF code.name = "*"
    THEN {p \in Permissions :
             /\ ContentTypes[p.content_type].app_label = code.app
             /\ p.codename[1] = code.action}
    ELSE {p \in Permissions :
             /\ p.content_type = CodeContentType(code)
             /\ p.codename = <<code.action, code.name>>}

\* the Permission rows PERMISSION_GROUPS[i] ends with
GroupPermissions(i) ==
    UNION {Matching(code) : code \in PERMISSION_GROUPS[i].permissions}

\* Group.objects.create for every group, existing or not
GroupsToCreateAll(rows) == DOMAIN PERMISSION_GROUPS

\* Group.objects.get_or_create(name=group_name): the groups it creates
GroupsToCreate(rows) ==
    {i \in DOMAIN PERMISSION_GROUPS :
        \A r \in rows : r.name # PERMISSION_GROUPS[i].name}

\* the primary key of the Group row get_or_create returns for group i
GroupId(rows, next, i) ==
    IF i \in GroupsToCreate(rows)
    THEN next + Cardinality({j \in GroupsToCreate(rows) : j < i})
    ELSE (CHOOSE r \in rows : r.name = PERMISSION_GROUPS[i].name).id

\* the rows of the bag other than those of the groups `ids`
WithoutGroups(bag, ids) ==
    [e \in {d \in DOMAIN bag : d[1] \notin ids} |-> bag[e]]

\* group.permissions.add(perm) for each of `rows`: inserts the missing ones
AddAll(bag, rows) == bag (+) SetToBag({e \in rows : ~BagIn(e, bag)})

MaxResets == 1      \* times the groups may be reset

\* Command.setup_permissions: create_groups_and_permissions inside one
\* transaction
SetupPermissions ==
    /\ groups' = groups \cup
           {[id |-> GroupId(groups, nextId.group, i),
             name |-> PERMISSION_GROUPS[i].name] : i \in GroupsToCreate(groups)}
    /\ nextId' = [nextId EXCEPT
                     !.group = @ + Cardinality(GroupsToCreate(groups))]
    /\ group_permissions' =
           AddAll(WithoutGroups(group_permissions,
                      {GroupId(groups, nextId.group, i) :
                          i \in DOMAIN PERMISSION_GROUPS}),
                  UNION {{<<GroupId(groups, nextId.group, i), p>> :
                             p \in GroupPermissions(i)} :
                         i \in DOMAIN PERMISSION_GROUPS})
    /\ resp' = Response("setup_permissions",
                        IF GroupsToCreate(groups) = {} THEN "updated"
                        ELSE "created")
    /\ UNCHANGED <<user_groups, outsideSeed>>

\* Command.reset_permissions, confirmed: every group of PERMISSION_GROUPS
\* loses its users and is deleted, its permission rows with it
ResetPermissions ==
    /\ nextId.group <= Len(PERMISSION_GROUPS) * MaxResets + 1
    /\ groups' = {r \in groups : r.name \notin GroupNames}
    /\ user_groups' =
           {m \in user_groups : \E r \in groups' : r.id = m[2]}
    /\ group_permissions' =
           WithoutGroups(group_permissions,
                         {r.id : r \in groups \ groups'})
    /\ resp' = Response("reset_permissions", "done")
    /\ UNCHANGED <<nextId, outsideSeed>>

\* Command.assign_user_to_group
AssignUserToGroup(username, group_name) ==
    /\ IF username \notin Users
       THEN /\ resp' = Response("assign_user", "user_not_found")
            /\ UNCHANGED user_groups
       ELSE IF \A r \in groups : r.name # group_name
       THEN /\ resp' = Response("assign_user", "group_not_found")
            /\ UNCHANGED user_groups
       ELSE IF group_name \notin GroupNames
       THEN /\ resp' = Response("assign_user", "invalid_group")
            /\ UNCHANGED user_groups
       ELSE IF <<username, (CHOOSE r \in groups : r.name = group_name).id>>
                  \in user_groups
       THEN /\ resp' = Response("assign_user", "already_member")
            /\ UNCHANGED user_groups
       ELSE /\ user_groups' = user_groups \cup
                    {<<username,
                       (CHOOSE r \in groups : r.name = group_name).id>>}
            /\ resp' = Response("assign_user", "added")
    /\ UNCHANGED <<groups, group_permissions, nextId, outsideSeed>>

\* the user admin's change form, whose groups field takes a group away from
\* a user
AdminRemoveUserFromGroup(username, group_id) ==
    /\ <<username, group_id>> \in user_groups
    /\ user_groups' = user_groups \ {<<username, group_id>>}
    /\ resp' = Response("admin_change_user", "saved")
    /\ UNCHANGED <<groups, group_permissions, nextId, outsideSeed>>

-----------------------------------------------------------------------------
(* The REST login: api_login, api_logout, api_user_profile                 *)

\* Of a Token row the model keeps the key and the user.  Token.user is a
\* OneToOneField.  A key is 40 random hexadecimal digits; the model takes a
\* new key to differ from every key generated before and numbers the keys.

MaxTokens == 3      \* Token rows a behaviour may create
NoKey == 0          \* a key that was never generated

\* the answer of api_login with a token
LoginResponse(user, key) ==
    [op |-> "api_login", outcome |-> "ok", errors |-> {},
     user |-> user, token |-> key]

\* the answer of a view that needs an authenticated user
UserResponse(op, outcome, user) ==
    [op |-> op, outcome |-> outcome, errors |-> {}, user |-> user]

\* user.auth_token exists
HasToken(rows, user) == \E t \in rows : t.user = user
TokenOf(rows, user) == CHOOSE t \in rows : t.user = user

\* Token authentication of a request that sends `key`: the user of the row
\* with that key, NoUser when there is none
TokenUser(rows, key) ==
    IF \E t \in rows : t.key = key
    THEN (CHOOSE t \in rows : t.key = key).user
    ELSE NoUser

\* api_logout that answers without deleting the token
TokensKept(rows, user) == rows

\* request.user.auth_token.delete()
TokensAfterLogout(rows, user) == {t \in rows : t.user # user}

\* api_login: `ident` is the e-mail or username sent (NoUser: one that
\* matches no user), present says whether both fields were sent, and
\* password_ok whether authenticate() accepts the password
ApiLogin(ident, present, password_ok) ==
    /\ nextId.token <= MaxTokens
    /\ IF ~present
       THEN /\ resp' = Response("api_login", "bad_request")
            /\ UNCHANGED <<tokens, nextId>>
       ELSE IF ident \notin Users \/ ~password_ok
       THEN /\ resp' = Response("api_login", "unauthorized")
            /\ UNCHANGED <<tokens, nextId>>
       ELSE IF HasToken(tokens, ident)
       THEN /\ resp' = LoginResponse(ident, TokenOf(tokens, ident).key)
            /\ UNCHANGED <<tokens, nextId>>
       ELSE /\ tokens' = tokens \cup {[key |-> nextId.token, user |-> ident]}
            /\ nextId' = [nextId EXCEPT !.token = @ + 1]
            /\ resp' = LoginResponse(ident, nextId.token)
    /\ UNCHANGED <<revoked, outsideToken>>

\* api_logout of a request that authenticates with the token `key`
ApiLogout(key) ==
    /\ IF TokenUser(tokens, key) = NoUser
       THEN /\ resp' = Response("api_logout", "unauthorized")
            /\ UNCHANGED <<tokens, revoked>>
       ELSE /\ tokens' = TokensAfterLogout(tokens, TokenUser(tokens, key))
            /\ revoked' = revoked \cup {key}
            /\ resp' = UserResponse("api_logout", "ok",
                                     TokenUser(tokens, key))
    /\ UNCHANGED <<nextId, outsideToken>>

\* api_logout of a request that authenticates as `user` by a session
\* instead of a token
ApiLogoutSession(user) ==
    /\ IF HasToken(tokens, user)
       THEN /\ tokens' = TokensAfterLogout(tokens, user)
            /\ revoked' = revoked \cup {TokenOf(tokens, user).key}
            /\ resp' = UserResponse("api_logout", "ok", user)
       ELSE /\ resp' = UserResponse("api_logout", "no_session", user)
            /\ UNCHANGED <<tokens, revoked>>
    /\ UNCHANGED <<nextId, outsideToken>>

\* api_user_profile of a request that sends the token `key`
ApiUserProfile(key) ==
    /\ resp' = IF TokenUser(tokens, key) = NoUser
               THEN Response("api_user_profile", "unauthorized")
               ELSE [op |-> "api_user_profile", outcome |-> "ok",
                     errors |-> {}, user |-> TokenUser(tokens, key),
                     token |-> key]
    /\ UNCHANGED <<tokens, revoked, nextId, outsideToken>>

-----------------------------------------------------------------------------
(* EmailService of the prototype API                                       *)

\* the names of EMAIL_TEMPLATES
EMAIL_TEMPLATES ==
    {"booking_approved", "booking_rejected", "system_notification"}

\* How one aiosmtplib.send ends: "ok", or the exception it raises
SmtpOutcomes == {"ok", "SMTPConnectError", "SMTPRecipientsRefused"}

\* how a call ends: it returns a value or raises an exception
Returned(value) == [kind |-> "returned", value |-> value]
Raised(error) == [kind |-> "raised", error |-> error]

\* What a call did: the recipients it called aiosmtplib.send for, in
\* order, and how it ended
Did(sends, end) == [sends |-> sends, end |-> end]

\* send_email without its try/except
SendEmailUnguarded(to_email, smtp) ==
    IF smtp = "ok"
    THEN Did(<<to_email>>, Returned([status |-> "sent", to |-> to_email]))
    ELSE Did(<<to_email>>, Raised(smtp))

\* EmailService.send_email
SendEmail(to_email, smtp) ==
    IF smtp = "ok"
    THEN Did(<<to_email>>, Returned([status |-> "sent", to |-> to_email]))
    ELSE Did(<<to_email>>,
             Returned([status |-> "failed", to |-> to_email, error |-> smtp]))

\* send_template_email without its look-up of the template name
SendTemplateEmailUnchecked(to_email, template_name, renders, smtp) ==
    IF ~renders
    THEN Did(<<>>, Raised("TemplateError"))
    ELSE SendEmail(to_email, smtp)

\* EmailService.send_template_email; renders says whether the templates
\* render with the data given
SendTemplateEmail(to_email, template_name, renders, smtp) ==
    IF template_name \notin EMAIL_TEMPLATES
    THEN Did(<<>>, Raised("ValueError"))
    ELSE IF ~renders
    THEN Did(<<>>, Raised("TemplateError"))
    ELSE SendEmail(to_email, smtp)

\* the loop of send_bulk_email, leaving at the first failed send
RECURSIVE BulkLoopUntilFailure(_, _, _, _, _, _)
BulkLoopUntilFailure(recipients, template_name, renders, smtp, sends, results) ==
    IF recipients = <<>>
    THEN Did(sends, Returned(results))
    ELSE LET one == SendTemplateEmail(Head(recipients), template_name,
                                      renders, Head(smtp))
         IN  IF one.end.kind = "raised"
             THEN Did(sends \o one.sends, one.end)
             ELSE IF one.end.value.status = "failed"
             THEN Did(sends \o one.sends,
                      Returned(Append(results, one.end.value)))
             ELSE BulkLoopUntilFailure(Tail(recipients), template_name,
                      renders, Tail(smtp), sends \o one.sends,
                      Append(results, one.end.value))

\* The loop of send_bulk_email over the recipients left, smtp[i] being how
\* the send to the i-th of them ends
RECURSIVE BulkLoop(_, _, _, _, _, _)
BulkLoop(recipients, template_name, renders, smtp, sends, results) ==
    IF recipients = <<>>
    THEN Did(sends, Returned(results))
    ELSE LET one == SendTemplateEmail(Head(recipients), template_name,
                                      renders, Head(smtp))
         IN  IF one.end.kind = "raised"
             THEN Did(sends \o one.sends, one.end)
             ELSE BulkLoop(Tail(recipients), template_name, renders,
                           Tail(smtp), sends \o one.sends,
                           Append(results, one.end.value))

\* EmailService.send_bulk_email
SendBulkEmail(recipients, template_name, renders, smtp) ==
    BulkLoop(recipients, template_name, renders, smtp, <<>>, <<>>)

\* the record of a call
Call(op, recipients, template_name, renders, smtp, did) ==
    [op |-> op, recipients |-> recipients, template |-> template_name,
     renders |-> renders, smtp |-> smtp, sends |-> did.sends,
     end |-> did.end]

NoCall ==
    Call("none", <<>>, "none", TRUE, <<>>, Did(<<>>, Returned(<<>>)))

\* a call of send_email
CallSendEmail(to_email, smtp) ==
    /\ mail' = Call("send_email", <<to_email>>, "none", TRUE, <<smtp>>,
                    SendEmail(to_email, smtp))
    /\ UNCHANGED outsideMail

\* a call of send_template_email
CallSendTemplateEmail(to_email, template_name, renders, smtp) ==
    /\ mail' = Call("send_template_email", <<to_email>>, template_name,
                    renders, <<smtp>>,
                    SendTemplateEmail(to_email, template_name, renders, smtp))
    /\ UNCHANGED outsideMail

\* a call of send_bulk_email
CallSendBulkEmail(recipients, template_name, renders, smtp) ==
    /\ mail' = Call("send_bulk_email", recipients, template_name, renders,
                    smtp,
                    SendBulkEmail(recipients, template_name, renders, smtp))
    /\ UNCHANGED outsideMail

-----------------------------------------------------------------------------
(* The prototype API: users, roles and tokens                              *)

MaxLogged == 1002       \* entries a behaviour of the audit trail may log
MaxCalls == 2   \* calls of the prototype API in one behaviour

UserRole == {"super_admin", "admin", "manager", "technician", "user"}

\* the permissions of a role
ROLE_PERMISSIONS ==
    [role \in UserRole |->
       CASE role \in {"super_admin", "admin"} ->
              {"create_user", "read_user", "update_user", "delete_user",
               "manage_roles", "assign_roles",
               "system_settings", "view_audit_logs", "backup_system",
               "create_asset", "read_asset", "update_asset", "delete_asset",
               "create_inventory", "read_inventory", "update_inventory",
               "delete_inventory",
               "create_ticket", "read_ticket", "update_ticket",
               "delete_ticket", "assign_ticket",
               "view_reports", "export_data",
               "create_booking", "read_booking", "update_booking",
               "delete_booking", "approve_booking", "manage_resources"}
         [] role = "manager" ->
              {"read_user", "update_user",
               "read_asset", "update_asset",
               "read_inventory", "update_inventory",
               "create_ticket", "read_ticket", "update_ticket",
               "assign_ticket",
               "view_reports", "export_data",
               "create_booking", "read_booking", "update_booking",
               "approve_booking"}
         [] role = "technician" ->
              {"read_user",
               "create_asset", "read_asset", "update_asset",
               "create_inventory", "read_inventory", "update_inventory",
               "create_ticket", "read_ticket", "update_ticket",
               "view_reports",
               "create_booking", "read_booking", "update_booking"}
         [] role = "user" ->
              {"read_asset", "read_inventory",
               "create_ticket", "read_ticket",
               "create_booking", "read_booking"}]

get_user_permissions(role) == ROLE_PERMISSIONS[role]

\* has_permission granting everything
HasEveryPermission(user_role, required_permission) == TRUE

has_permission(user_role, required_permission) ==
    required_permission \in get_user_permissions(user_role)

\* A stored user; last_login None is NoTime
StoredUser(id, username, email, password, full_name, role) ==
    [id |-> id, username |-> username, email |-> email,
     password |-> password, full_name |-> full_name, role |-> role,
     is_active |-> TRUE, last_login |-> NoTime]

\* the keys of MOCK_USERS in the order the dict holds them
UserKeys == <<"super_admin", "admin", "manager", "tech", "user">>

\* MOCK_USERS as the module creates it; the ids stand for the uuid4 values
InitialUsers ==
    ("super_admin" :> StoredUser("uuid-1", "super_admin", "super@opon.com",
                           "super123", "Super Administrator", "super_admin"))
    @@ ("admin" :> StoredUser("uuid-2", "admin", "admin@opon.com",
                           "admin", "System Administrator", "admin"))
    @@ ("manager" :> StoredUser("uuid-3", "manager", "manager@opon.com",
                           "manager123", "Team Manager", "manager"))
    @@ ("tech" :> StoredUser("uuid-4", "tech", "tech@opon.com",
                           "tech123", "IT Technician", "technician"))
    @@ ("user" :> StoredUser("uuid-5", "user", "user@opon.com",
                           "user123", "Regular User", "user"))

\* no key: the None of a search that found nothing
NoneKey == ""

\* The first of the keys in dict order, as a loop over the store that
\* stops at the first user passing its test finds it
FirstKey(keys) ==
    LET found == {i \in 1..Len(UserKeys) : UserKeys[i] \in keys}
    IN  IF found = {} THEN NoneKey
        ELSE UserKeys[CHOOSE i \in found : \A j \in found : i <= j]

\* A token is <<its first six characters, the rest>>; the token login
\* issues for a user id
TokenFor(id) == <<"token_", id>>

\* no token: the parameter is absent or the empty string
NoToken == <<"", "">>

\* get_current_user_from_token, answering the key of the user found
get_current_user_from_token(users, token) ==
    IF token[1] = "token_"
    THEN FirstKey({k \in DOMAIN users : users[k].id = token[2]})
    ELSE NoneKey

\* the key of the user with the id, as the loops of update_user and
\* delete_user find it
KeyOfId(users, user_id) ==
    FirstKey({k \in DOMAIN users : users[k].id = user_id})

\* What a handler of the prototype API answers: the status code, the
\* request it answered and the body
Answer(op, status, request, body) ==
    [op |-> op, status |-> status, request |-> request, body |-> body]

\* the body of an error answer: the detail text only
NoBody == {}

\* a step of the user handlers: it counts as a call and leaves the other
\* stores alone
UserCall ==
    /\ calls < MaxCalls
    /\ calls' = calls + 1
    /\ UNCHANGED <<MOCK_BOOKINGS, MOCK_ASSETS, MOCK_TICKETS>>
    /\ UNCHANGED <<MOCK_AUDIT_LOGS, logged>>
    /\ UNCHANGED outsideMock

\* login that does not look at is_active
LoginKeyOfInactiveToo(users, username, password) ==
    FirstKey({k \in DOMAIN users : /\ users[k].username = username
                                   /\ users[k].password = password})

\* The key of the user login lets in, NoneKey when it answers 401: the first
\* user with the username and the password, unless deactivated
LoginKey(users, username, password) ==
    LET key == FirstKey({k \in DOMAIN users :
                            /\ users[k].username = username
                            /\ users[k].password = password})
    IN  IF key # NoneKey /\ ~users[key].is_active THEN NoneKey ELSE key

\* POST /login
login(username, password) ==
    /\ UserCall
    /\ LET key == LoginKey(MOCK_USERS, username, password)
           request == [username |-> username, password |-> password]
       IN  IF key = NoneKey
           THEN /\ UNCHANGED MOCK_USERS
                /\ resp' = Answer("login", 401, request, NoBody)
           ELSE /\ MOCK_USERS' = [MOCK_USERS EXCEPT ![key].last_login = now]
                /\ resp' = Answer("login", 200, request,
                       [access_token |-> TokenFor(MOCK_USERS[key].id),
                        username |-> MOCK_USERS[key].username,
                        role |-> MOCK_USERS[key].role])

\* POST /register: after the two uniqueness checks the handler reads
\* user.full_name and user.role, which UserRegister does not have, so it
\* ends in an AttributeError (status 500) before anything is stored
register(username, email) ==
    /\ UserCall
    /\ UNCHANGED MOCK_USERS
    /\ LET request == [username |-> username, email |-> email]
       IN  IF \E k \in DOMAIN MOCK_USERS :
                  \/ MOCK_USERS[k].username = username
                  \/ MOCK_USERS[k].email = email
           THEN resp' = Answer("register", 400, request, NoBody)
           ELSE resp' = Answer("register", 500, request, NoBody)

\* what get_users shows of a stored user
UserView(u) ==
    [id |-> u.id, username |-> u.username, email |-> u.email,
     full_name |-> u.full_name, role |-> u.role, is_active |-> u.is_active,
     last_login |-> u.last_login]

\* GET /api/users
get_users(token) ==
    /\ UserCall
    /\ UNCHANGED MOCK_USERS
    /\ LET current_user == get_current_user_from_token(MOCK_USERS, token)
           request == [token |-> token]
       IN  IF token = NoToken
           THEN resp' = Answer("get_users", 401, request, NoBody)
           ELSE IF current_user = NoneKey
           THEN resp' = Answer("get_users", 401, request, NoBody)
           ELSE IF ~has_permission(MOCK_USERS[current_user].role, "read_user")
           THEN resp' = Answer("get_users", 403, request, NoBody)
           ELSE resp' = Answer("get_users", 200, request,
                    {UserView(MOCK_USERS[k]) : k \in DOMAIN MOCK_USERS})

\* A UserUpdate: username, email and full_name are strings, "" when absent;
\* role and is_active are sets, empty when absent
UserUpdate(username, email, full_name, role, is_active) ==
    [username |-> username, email |-> email, full_name |-> full_name,
     role |-> role, is_active |-> is_active]

\* the user after the assignments of username, email and full_name
Renamed(u, user_update) ==
    [u EXCEPT
       !.username = IF user_update.username # "" THEN user_update.username
                    ELSE @,
       !.email = IF user_update.email # "" THEN user_update.email ELSE @,
       !.full_name = IF user_update.full_name # "" THEN user_update.full_name
                     ELSE @]

\* the user after the assignments of role and is_active
Regraded(u, user_update) ==
    [u EXCEPT
       !.role = IF user_update.role # {}
                THEN CHOOSE r \in user_update.role : TRUE ELSE @,
       !.is_active = IF user_update.is_active # {}
                     THEN CHOOSE a \in user_update.is_active : TRUE ELSE @]

\* the role test of update_user, left out
MayAssignAnyRole(caller_role, user_update) == TRUE

\* the role test of update_user: super_admin is assigned by a super admin
MayAssignRole(caller_role, user_update) ==
    ~("super_admin" \in user_update.role /\ caller_role # "super_admin")

\* PUT /api/users/{user_id}
update_user(user_id, user_update, token) ==
    /\ UserCall
    /\ LET current_user == get_current_user_from_token(MOCK_USERS, token)
           user_key == KeyOfId(MOCK_USERS, user_id)
           request == [user_id |-> user_id, user_update |-> user_update,
                       token |-> token]
       IN  IF token = NoToken
           THEN /\ UNCHANGED MOCK_USERS
                /\ resp' = Answer("update_user", 401, request, NoBody)
           ELSE IF current_user = NoneKey
           THEN /\ UNCHANGED MOCK_USERS
                /\ resp' = Answer("update_user", 401, request, NoBody)
           ELSE IF ~has_permission(MOCK_USERS[current_user].role,
                                   "update_user")
           THEN /\ UNCHANGED MOCK_USERS
                /\ resp' = Answer("update_user", 403, request, NoBody)
           ELSE IF user_key = NoneKey
           THEN /\ UNCHANGED MOCK_USERS
                /\ resp' = Answer("update_user", 404, request, NoBody)
           ELSE IF ~MayAssignRole(MOCK_USERS[current_user].role, user_update)
           THEN /\ MOCK_USERS' =
                     [MOCK_USERS EXCEPT
                        ![user_key] = Renamed(@, user_update)]
                /\ resp' = Answer("update_user", 403, request, NoBody)
           ELSE /\ MOCK_USERS' =
                     [MOCK_USERS EXCEPT
                        ![user_key] =
                            Regraded(Renamed(@, user_update), user_update)]
                /\ resp' = Answer("update_user", 200, request, NoBody)

\* the store without the key
WithoutKey(users, key) == [k \in DOMAIN users \ {key} |-> users[k]]

\* the count delete_user takes before it deletes a super admin
super_admin_count(users) ==
    Cardinality({k \in DOMAIN users : /\ users[k].role = "super_admin"
                                      /\ users[k].is_active})

\* DELETE /api/users/{user_id}
delete_user(user_id, token) ==
    /\ UserCall
    /\ LET current_user == get_current_user_from_token(MOCK_USERS, token)
           user_key == KeyOfId(MOCK_USERS, user_id)
           request == [user_id |-> user_id, token |-> token]
       IN  IF token = NoToken
           THEN /\ UNCHANGED MOCK_USERS
                /\ resp' = Answer("delete_user", 401, request, NoBody)
           ELSE IF current_user = NoneKey
           THEN /\ UNCHANGED MOCK_USERS
                /\ resp' = Answer("delete_user", 401, request, NoBody)
           ELSE IF ~has_permission(MOCK_USERS[current_user].role,
                                   "delete_user")
           THEN /\ UNCHANGED MOCK_USERS
                /\ resp' = Answer("delete_user", 403, request, NoBody)
           ELSE IF MOCK_USERS[current_user].id = user_id
           THEN /\ UNCHANGED MOCK_USERS
                /\ resp' = Answer("delete_user", 400, request, NoBody)
           ELSE IF user_key = NoneKey
           THEN /\ UNCHANGED MOCK_USERS
                /\ resp' = Answer("delete_user", 404, request, NoBody)
           ELSE IF /\ MOCK_USERS[user_key].role = "super_admin"
                   /\ super_admin_count(MOCK_USERS) <= 1
           THEN /\ UNCHANGED MOCK_USERS
                /\ resp' = Answer("delete_user", 400, request, NoBody)
           ELSE /\ MOCK_USERS' = WithoutKey(MOCK_USERS, user_key)
                /\ resp' = Answer("delete_user", 200, request, NoBody)

-----------------------------------------------------------------------------
(* The prototype API: resources and bookings                               *)

ResourceIds ==
    {"resource_1", "resource_2", "resource_3", "resource_4", "resource_5",
     "resource_6"}

\* MOCK_RESOURCES as the module creates it: the status of each resource
MOCK_RESOURCES == [r \in ResourceIds |-> [id |-> r, status |-> "available"]]

BookingStatus ==
    {"pending", "approved", "rejected", "confirmed", "in_use", "completed",
     "cancelled"}

\* A stored booking.  Datetimes are points of an ordered scale on which the
\* handlers only compare; the clock starts at 1.
StoredBooking(id, resource_id, start_time, end_time, status, updated_at) ==
    [id |-> id, resource_id |-> resource_id, start_time |-> start_time,
     end_time |-> end_time, status |-> status, updated_at |-> updated_at]

\* MOCK_BOOKINGS as the module creates it, booking_n stored under n: all in
\* the future, in the order of their start times
InitialBookings ==
    (1 :> StoredBooking(1, "resource_3", 3, 4, "approved", 1))
    @@ (2 :> StoredBooking(2, "resource_1", 4, 5, "pending", 1))
    @@ (3 :> StoredBooking(3, "resource_5", 2, 3, "confirmed", 1))
    @@ (4 :> StoredBooking(4, "resource_4", 5, 6, "approved", 1))

\* the time test of create_booking's conflict loop, between a booking
\* request and a stored booking
TimesOverlap(booking, existing_booking) ==
    ~(\/ booking.end_time <= existing_booking.start_time
      \/ booking.start_time >= existing_booking.end_time)

\* the conflict loop of create_booking
HasConflict(bookings, booking) ==
    \E k \in DOMAIN bookings :
        /\ bookings[k].resource_id = booking.resource_id
        /\ bookings[k].status \in {"approved", "confirmed"}
        /\ TimesOverlap(booking, bookings[k])

\* a BookingCreate
BookingCreate(resource_id, start_time, end_time) ==
    [resource_id |-> resource_id, start_time |-> start_time,
     end_time |-> end_time]

\* a step of the booking handlers: it counts as a call and leaves the other
\* stores alone
BookingCall ==
    /\ calls < MaxCalls
    /\ calls' = calls + 1
    /\ UNCHANGED <<MOCK_USERS, MOCK_ASSETS, MOCK_TICKETS>>
    /\ UNCHANGED <<MOCK_AUDIT_LOGS, logged>>
    /\ UNCHANGED outsideMock

\* POST /api/bookings
create_booking(booking) ==
    /\ BookingCall
    /\ LET booking_id == Cardinality(DOMAIN MOCK_BOOKINGS) + 1
           new_booking ==
               StoredBooking(booking_id, booking.resource_id,
                             booking.start_time, booking.end_time,
                             "pending", now)
       IN  IF booking.resource_id \notin DOMAIN MOCK_RESOURCES
           THEN /\ UNCHANGED MOCK_BOOKINGS
                /\ resp' = Answer("create_booking", 404, booking, NoBody)
           ELSE IF MOCK_RESOURCES[booking.resource_id].status # "available"
           THEN /\ UNCHANGED MOCK_BOOKINGS
                /\ resp' = Answer("create_booking", 400, booking, NoBody)
           ELSE IF HasConflict(MOCK_BOOKINGS, booking)
           THEN /\ UNCHANGED MOCK_BOOKINGS
                /\ resp' = Answer("create_booking", 400, booking, NoBody)
           ELSE /\ MOCK_BOOKINGS' =
                     (booking_id :> new_booking) @@ MOCK_BOOKINGS
                /\ resp' = Answer("create_booking", 200, booking, new_booking)

\* A BookingUpdate: start_time and end_time are NoTime when absent, status
\* is "" when absent
BookingUpdate(start_time, end_time, status) ==
    [start_time |-> start_time, end_time |-> end_time, status |-> status]

\* PUT /api/bookings/{booking_id}
update_booking(booking_id, booking) ==
    /\ BookingCall
    /\ LET request == [booking_id |-> booking_id, booking |-> booking]
       IN  IF booking_id \notin DOMAIN MOCK_BOOKINGS
           THEN /\ UNCHANGED MOCK_BOOKINGS
                /\ resp' = Answer("update_booking", 404, request, NoBody)
           ELSE /\ MOCK_BOOKINGS' =
                     [MOCK_BOOKINGS EXCEPT
                        ![booking_id] =
                            [@ EXCEPT
                               !.start_time = IF booking.start_time # NoTime
                                              THEN booking.start_time ELSE @,
                               !.end_time = IF booking.end_time # NoTime
                                            THEN booking.end_time ELSE @,
                               !.status = IF booking.status # ""
                                          THEN booking.status ELSE @,
                               !.updated_at = now]]
                /\ resp' = Answer("update_booking", 200, request,
                                  MOCK_BOOKINGS'[booking_id])

\* POST /api/bookings/{booking_id}/approve
approve_booking(booking_id, status) ==
    /\ BookingCall
    /\ LET request == [booking_id |-> booking_id, status |-> status]
       IN  IF booking_id \notin DOMAIN MOCK_BOOKINGS
           THEN /\ UNCHANGED MOCK_BOOKINGS
                /\ resp' = Answer("approve_booking", 404, request, NoBody)
           ELSE /\ MOCK_BOOKINGS' =
                     [MOCK_BOOKINGS EXCEPT
                        ![booking_id] = [@ EXCEPT !.status = status,
                                                  !.updated_at = now]]
                /\ resp' = Answer("approve_booking", 200, request,
                                  MOCK_BOOKINGS'[booking_id])

\* DELETE /api/bookings/{booking_id}
delete_booking(booking_id) ==
    /\ BookingCall
    /\ LET request == [booking_id |-> booking_id]
       IN  IF booking_id \notin DOMAIN MOCK_BOOKINGS
           THEN /\ UNCHANGED MOCK_BOOKINGS
                /\ resp' = Answer("delete_booking", 404, request, NoBody)
           ELSE /\ MOCK_BOOKINGS' =
                     [k \in DOMAIN MOCK_BOOKINGS \ {booking_id} |->
                        MOCK_BOOKINGS[k]]
                /\ resp' = Answer("delete_booking", 200, request, NoBody)

-----------------------------------------------------------------------------
(* The prototype API: assets and tickets                                   *)

AssetIds ==
    {"asset-001", "asset-002", "asset-003", "asset-004", "asset-005",
     "asset-006"}

\* MOCK_ASSETS after init_sample_assets: of each asset its tag (one of the
\* fields no handler below writes), its status and updated_at; disposed_by
\* is "" while the asset has no such entry
InitialAssets ==
    [a \in AssetIds |->
       [id |-> a, asset_tag |-> <<"ITMS", a>>, status |-> "active",
        updated_at |-> 1, disposed_by |-> ""]]

TicketIds ==
    {"ticket-001", "ticket-002", "ticket-003", "ticket-004", "ticket-005"}

\* MOCK_TICKETS after init_sample_tickets: of each ticket its requester (one
\* of the fields no handler below writes), its status and updated_at
InitialTickets ==
    [t \in TicketIds |->
       [id |-> t, created_by |-> "somchai",
        status |-> CASE t = "ticket-001" -> "open"
                     [] t = "ticket-002" -> "in_progress"
                     [] t = "ticket-003" -> "resolved"
                     [] t = "ticket-004" -> "pending"
                     [] t = "ticket-005" -> "open",
        updated_at |-> 0]]

-----------------------------------------------------------------------------
(* The prototype API: the audit trail                                      *)

\* the entries MOCK_AUDIT_LOGS keeps
AuditCap == 1000

\* the entry log_activity builds: its id is a fresh uuid, here the number of
\* the entry; user, action and description are free text no code looks at
LogEntry(n) == [id |-> n]

\* MOCK_AUDIT_LOGS after log_activity made entry n
Logged(logs, n) ==
    LET inserted == <<LogEntry(n)>> \o logs
    IN  IF Len(inserted) > AuditCap
        THEN SubSeq(inserted, 1, AuditCap)
        ELSE inserted

\* log_activity called by a handler
LogsActivity ==
    /\ MOCK_AUDIT_LOGS' = Logged(MOCK_AUDIT_LOGS, logged + 1)
    /\ logged' = logged + 1

\* a handler that ends before it logs
LogsNothing == UNCHANGED <<MOCK_AUDIT_LOGS, logged>>

\* the slice s[:n] of a list
SliceTo(s, n) ==
    IF n >= 0
    THEN SubSeq(s, 1, IF n < Len(s) THEN n ELSE Len(s))
    ELSE SubSeq(s, 1, IF Len(s) + n > 0 THEN Len(s) + n ELSE 0)

\* the list after k more calls of log_activity, the first making entry n
RECURSIVE LoggedTimes(_, _, _)
LoggedTimes(logs, n, k) ==
    IF k <= 0 THEN logs ELSE LoggedTimes(Logged(logs, n), n + 1, k - 1)

\* a step of the audit trail: it leaves the other stores alone
AuditCall ==
    /\ UNCHANGED <<MOCK_USERS, MOCK_BOOKINGS, MOCK_ASSETS, MOCK_TICKETS, calls>>
    /\ UNCHANGED outsideMock

\* log_activity, called on its own
log_activity ==
    /\ AuditCall
    /\ logged < MaxLogged
    /\ LogsActivity
    /\ resp' = Answer("log_activity", 200, NoBody, NoBody)

\* GET /api/audit-logs: the first entries, after sample entries were logged
\* when there is none; the timestamps it formats are not modelled
get_audit_logs(limit) ==
    /\ AuditCall
    /\ LET samples == IF MOCK_AUDIT_LOGS # <<>> THEN 0
                      ELSE IF limit < 5 THEN limit ELSE 5
           after == LoggedTimes(MOCK_AUDIT_LOGS, logged + 1, samples)
           logs == IF MOCK_AUDIT_LOGS # <<>>
                   THEN IF Len(MOCK_AUDIT_LOGS) >= limit
                        THEN SliceTo(MOCK_AUDIT_LOGS, limit)
                        ELSE MOCK_AUDIT_LOGS
                   ELSE SliceTo(after, limit)
       IN  /\ MOCK_AUDIT_LOGS' = after
           /\ logged' = IF samples > 0 THEN logged + samples ELSE logged
           /\ resp' = Answer("get_audit_logs", 200, [limit |-> limit], logs)

\* a step of the asset and ticket handlers: it counts as a call and leaves
\* the other stores alone
RecordCall ==
    /\ calls < MaxCalls
    /\ calls' = calls + 1
    /\ UNCHANGED <<MOCK_USERS, MOCK_BOOKINGS>>
    /\ UNCHANGED outsideMock

\* delete_asset removing the entry
AssetsAfterRemoval(assets, asset_id, username, clock) ==
    [a \in DOMAIN assets \ {asset_id} |-> assets[a]]

\* the store after delete_asset marked the asset
AssetsAfterDelete(assets, asset_id, username, clock) ==
    [assets EXCEPT ![asset_id] = [@ EXCEPT !.status = "disposed",
                                           !.updated_at = clock,
                                           !.disposed_by = username]]

\* DELETE /api/assets/{asset_id}
delete_asset(asset_id, token) ==
    /\ RecordCall
    /\ UNCHANGED MOCK_TICKETS
    /\ LET current_user == get_current_user_from_token(MOCK_USERS, token)
           request == [asset_id |-> asset_id, token |-> token]
       IN  IF current_user = NoneKey
           THEN /\ UNCHANGED MOCK_ASSETS
                /\ LogsNothing
                /\ resp' = Answer("delete_asset", 401, request, NoBody)
           ELSE IF ~has_permission(MOCK_USERS[current_user].role,
                                   "delete_asset")
           THEN /\ UNCHANGED MOCK_ASSETS
                /\ LogsNothing
                /\ resp' = Answer("delete_asset", 403, request, NoBody)
           ELSE IF asset_id \notin DOMAIN MOCK_ASSETS
           THEN /\ UNCHANGED MOCK_ASSETS
                /\ LogsNothing
                /\ resp' = Answer("delete_asset", 404, request, NoBody)
           ELSE /\ MOCK_ASSETS' =
                     AssetsAfterDelete(MOCK_ASSETS, asset_id,
                         MOCK_USERS[current_user].username, now)
                /\ LogsActivity
                /\ resp' = Answer("delete_asset", 200, request, NoBody)

\* the store after delete_ticket marked the ticket
TicketsAfterDelete(tickets_, ticket_id, clock) ==
    [tickets_ EXCEPT ![ticket_id] = [@ EXCEPT !.status = "cancelled",
                                              !.updated_at = clock]]

\* DELETE /api/tickets/{ticket_id}
delete_ticket(ticket_id, token) ==
    /\ RecordCall
    /\ UNCHANGED MOCK_ASSETS
    /\ LET current_user == get_current_user_from_token(MOCK_USERS, token)
           request == [ticket_id |-> ticket_id, token |-> token]
       IN  IF current_user = NoneKey
           THEN /\ UNCHANGED MOCK_TICKETS
                /\ LogsNothing
                /\ resp' = Answer("delete_ticket", 401, request, NoBody)
           ELSE IF ~has_permission(MOCK_USERS[current_user].role,
                                   "delete_ticket")
           THEN /\ UNCHANGED MOCK_TICKETS
                /\ LogsNothing
                /\ resp' = Answer("delete_ticket", 403, request, NoBody)
           ELSE IF ticket_id \notin DOMAIN MOCK_TICKETS
           THEN /\ UNCHANGED MOCK_TICKETS
                /\ LogsNothing
                /\ resp' = Answer("delete_ticket", 404, request, NoBody)
           ELSE /\ MOCK_TICKETS' =
                     TicketsAfterDelete(MOCK_TICKETS, ticket_id, now)
                /\ LogsActivity
                /\ resp' = Answer("delete_ticket", 200, request, NoBody)

-----------------------------------------------------------------------------
(* Initial state and specifications                                        *)

NoResponse == Response("none", "none")

\* the tables outside the reservation and ticket views, empty, and the
\* stores of the prototype API as its module creates them
InitOutsideBooking ==
    /\ licenses = {}
    /\ installations = {}
    /\ groups = {}
    /\ group_permissions = EmptyBag
    /\ user_groups = {}
    /\ tokens = {}
    /\ revoked = {}
    /\ mail = NoCall
    /\ MOCK_USERS = InitialUsers
    /\ MOCK_BOOKINGS = InitialBookings
    /\ MOCK_ASSETS = InitialAssets
    /\ MOCK_TICKETS = InitialTickets
    /\ calls = 0
    /\ MOCK_AUDIT_LOGS = <<>>
    /\ logged = 0

Init ==
    /\ now = 1
    /\ reservations = {}
    /\ tickets = {}
    /\ nextId = [reservation |-> 1, ticket |-> 1, license |-> 1,
                 installation |-> 1, group |-> 1, token |-> 1]
    /\ budget = MaxReservations
    /\ reqs = [p \in Procs |-> IdleReq]
    /\ resp = NoResponse
    /\ InitOutsideBooking

AssetInputs == Assets \cup {NoAsset, EmptyAsset}
TimeInputs == Times \cup {NoTime}

\* the forms submitted to create_reservation_view: every asset and interval
\* with the other fields valid, and forms with one other field in error
ReservationForms ==
    Forms({5}, Assets, {TRUE}, Times)
    \cup Forms({5}, {NoAsset, EmptyAsset}, {TRUE}, {MaxTime - 1, MaxTime})
    \cup Forms({5}, {1}, {TRUE}, {NoTime, MaxTime})
    \cup Forms({0, 4}, {1}, {TRUE}, {MaxTime - 1, MaxTime})
    \cup Forms({5}, {1}, {FALSE}, {MaxTime - 1, MaxTime})

\* The writers of the Reservation table, each request handled alone and all
\* within one second
NextReservation ==
    \/ \E f \in ReservationForms : CreateReservation("alice", f)
    \/ \E a \in Assets, st \in {"approved", "cancelled"},
          s \in Times, e \in Times : AdminAddReservation("alice", a, st, s, e)

SpecReservation == Init /\ [][NextReservation]_vars

\* rows of the asset that hold it (pending or approved) at some moment of
\* the half-open interval [s, e)
Holders(rows, asset, s, e) ==
    {r \in rows : /\ r.asset = asset
                  /\ r.status \in {"pending", "approved"}
                  /\ \E t \in Times : /\ s <= t /\ t < e
                                      /\ r.start_datetime <= t
                                      /\ t < r.end_datetime}

\* rows of the asset that hold it and end where [s, e) starts or start
\* where it ends
Neighbours(rows, asset, s, e) ==
    {r \in rows : /\ r.asset = asset
                  /\ r.status \in {"pending", "approved"}
                  /\ (r.end_datetime = s \/ r.start_datetime = e)}

\* a form whose every field is valid, conflicts aside
WellFormed(f, clock) ==
    /\ f.title_len >= 5 /\ f.rtype /\ f.asset \in Assets
    /\ f.start # NoTime /\ f.end # NoTime
    /\ f.start < f.end /\ f.start >= clock

C7_EndAfterStart ==
    /\ \A r \in reservations : r.end_datetime > r.start_datetime
    /\ \A f \in ReservationForms :
         (f.start # NoTime /\ f.end # NoTime /\ f.end <= f.start)
         => "end_not_after_start" \in ValidationErrors(reservations, f, now)

\* the database refused a write while rows are stored
W_C7 ==
    /\ resp = Response("admin_add_reservation", "error")
    /\ reservations # {}

-----------------------------------------------------------------------------
(* Concurrent create_reservation_view requests                             *)

RaceForms ==
    Forms({5}, Assets, {TRUE}, Times)
    \cup Forms({4}, {1}, {TRUE}, {MaxTime - 1, MaxTime})

RaceUser(p) == IF p = 1 THEN "alice" ELSE "bob"

\* Two workers, each handling one request, their database statements
\* interleaved
NextRace ==
    \/ \E p \in Procs, f \in RaceForms : ReceiveCreate(p, RaceUser(p), f)
    \/ \E p \in Procs : CompleteCreate(p)

SpecRace == Init /\ [][NextRace]_vars

\* the half-open intervals of two forms share a moment
FormsOverlap(f, g) ==
    /\ f.start < f.end /\ g.start < g.end
    /\ f.start < g.end /\ g.start < f.end

\* C6: of two concurrent requests for the same asset with overlapping
\* intervals at most one stores a reservation, and no two stored pending or
\* approved reservations of one asset overlap.
C6_AtMostOneStored ==
    /\ \A p, q \in Procs :
         (/\ p # q
          /\ reqs[p].pc = "done" /\ reqs[q].pc = "done"
          /\ reqs[p].form.asset = reqs[q].form.asset
          /\ FormsOverlap(reqs[p].form, reqs[q].form))
         => ~(reqs[p].outcome = "created" /\ reqs[q].outcome = "created")
    /\ \A r \in reservations :
         Holders(reservations \ {r}, r.asset,
                 r.start_datetime, r.end_datetime) = {}

-----------------------------------------------------------------------------
(* Numbering of tickets and reservations                                   *)

\* Tables that hold, for the second `ts`, the base number and the counter
\* suffixes 001..k: the rows left by k + 1 saves within that second.
NumberedTickets(ts, k) ==
    {[id |-> 1, ticket_number |-> <<"TK", ts, <<>>>>]}
    \cup {[id |-> c + 1, ticket_number |-> <<"TK", ts, Format03d(c)>>] :
             c \in 1..k}

NumberedReservations(ts, k) ==
    {[id |-> c + 1,
      reservation_number |->
          IF c = 0 THEN <<"RSV", ts, <<>>>> ELSE <<"RSV", ts, Format03d(c)>>,
      asset |-> 1, reserved_by |-> "alice", approved_by |-> NoUser,
      status |-> "cancelled", start_datetime |-> 0, end_datetime |-> 1] :
        c \in 0..k}

\* the numbering model starts from empty tables, or from tables in which
\* a single counter suffix is left for the current second
InitNumbers ==
    /\ now = 1
    /\ \/ tickets = {} /\ reservations = {}
       \/ /\ tickets = NumberedTickets(1, CounterLimit - 1)
          /\ reservations = NumberedReservations(1, CounterLimit - 1)
    /\ nextId = [reservation |-> Cardinality(reservations) + 1,
                 ticket |-> Cardinality(tickets) + 1, license |-> 1,
                 installation |-> 1, group |-> 1, token |-> 1]
    /\ budget = MaxSaves
    /\ reqs = [p \in Procs |-> IdleReq]
    /\ resp = NoResponse
    /\ InitOutsideBooking

TicketForms ==
    [title_len : {5}, desc_len : {10}, category : {1, NoCategory}]

\* the ticket numbers a REST client sends: shaped like generated ones of
\* the current second
ClientNumbers == {<<"TK", now, <<>>>>, <<"TK", now, <<0, 0, 1>>>>}

\* Saves of tickets and reservations, several of them within one second
NextNumbers ==
    \/ Tick
    \/ \E f \in TicketForms : CreateTicket("alice", f)
    \/ \E n \in ClientNumbers : ApiCreateTicket(n)
    \/ \E id \in {nextId.ticket - 1}, n \in ClientNumbers :
          ApiUpdateTicket(id, n)
    \/ AdminAddReservation("alice", 1, "cancelled", 0, 1)

SpecNumbers == InitNumbers /\ [][NextNumbers]_vars

\* C3: all stored ticket numbers are pairwise distinct, and so are all
\* stored reservation numbers: each table holds as many distinct numbers as
\* it holds rows.
C3_NumbersDistinct ==
    /\ Cardinality({t.ticket_number : t \in tickets}) = Cardinality(tickets)
    /\ Cardinality({r.reservation_number : r \in reservations})
           = Cardinality(reservations)

\* a clashing ticket number was refused, and the newest ticket and the
\* newest reservation each got a counter suffix from a save in a second
\* whose base number was taken
W_C3 ==
    /\ resp = Response("api_create_ticket", "rejected")
    /\ \E t \in tickets :
         t.id = nextId.ticket - 1 /\ t.id > 1 /\ t.ticket_number[3] # <<>>
    /\ \E r \in reservations :
         /\ r.id = nextId.reservation - 1 /\ r.id > 1
         /\ r.reservation_number[3] # <<>>

\* the numbers of a table
TicketNumbers == {t.ticket_number : t \in tickets}
ReservationNumbers == {r.reservation_number : r \in reservations}

\* n is the number the rule "the base when it is free, otherwise the base
\* followed by the first free counter suffix" gives for the second ts
IsFirstFree(prefix, stored, ts, n) ==
    IF Cardinality(stored) = 0 \/ <<prefix, ts, <<>>>> \notin stored
    THEN n = <<prefix, ts, <<>>>>
    ELSE \E c \in 1..(Cardinality(stored) + 1) :
            /\ n = <<prefix, ts, Format03d(c)>>
            /\ n \notin stored
            /\ \A d \in 1..(c - 1) : <<prefix, ts, Format03d(d)>> \in stored

\* all counters 001..CounterLimit of the second ts are taken, and the base
CountersExhausted(prefix, stored, ts) ==
    /\ Cardinality(stored) > CounterLimit
    /\ <<prefix, ts, <<>>>> \in stored
    /\ \A c \in 1..CounterLimit : <<prefix, ts, Format03d(c)>> \in stored

\* a save of a row without a number has just stored it
TicketSaved ==
    /\ resp' = Response("create_ticket", "created")
    /\ nextId'.ticket # nextId.ticket
ReservationSaved ==
    /\ resp' = Response("admin_add_reservation", "created")
    /\ nextId'.reservation # nextId.reservation
NewestTicket == CHOOSE t \in tickets' : t.id = nextId.ticket
NewestReservation == CHOOSE r \in reservations' : r.id = nextId.reservation

\* the number n was assigned from the set `stored` in the second ts
\* according to the rule alone
AssignedByRule(prefix, numbers, ts, number) ==
    \E stored \in {numbers}, n \in {number} :
        IsFirstFree(prefix, stored, ts, n)

\* the same, with the safety break once the counters are exhausted
AssignedByRuleOrBreak(prefix, numbers, ts, number) ==
    \E stored \in {numbers}, n \in {number} :
        IF CountersExhausted(prefix, stored, ts)
        THEN \E ts2 \in {ts, ts + 1}, rnd \in RandMin..RandMax :
                n = <<prefix, ts2, Format03d(rnd)>>
        ELSE IsFirstFree(prefix, stored, ts, n)

\* C4 as stated: the number a save assigns is the base when that is free,
\* otherwise the base followed by the first free counter suffix 001, 002,
\* ..., whatever the stored set is.
C4_FirstFreeAlways ==
    [][/\ TicketSaved =>
            AssignedByRule("TK", TicketNumbers, now,
                           NewestTicket.ticket_number)
       /\ ReservationSaved =>
            AssignedByRule("RSV", ReservationNumbers, now,
                           NewestReservation.reservation_number)]_vars

\* C4: the number a save assigns is the base when that is free, otherwise
\* the base followed by the first free counter suffix 001, 002, ..., as long
\* as a counter up to CounterLimit is free; once the base and all of
\* 001..CounterLimit are taken the number is the prefix, a timestamp read
\* again and a random integer of RandMin..RandMax, which the stored set and
\* the timestamp do not determine.
C4_FirstFreeUpToLimit ==
    [][/\ TicketSaved =>
            AssignedByRuleOrBreak("TK", TicketNumbers, now,
                                  NewestTicket.ticket_number)
       /\ ReservationSaved =>
            AssignedByRuleOrBreak("RSV", ReservationNumbers, now,
                                  NewestReservation.reservation_number)]_vars

\* the newest ticket was numbered by the safety break, the one before it
\* got the last free counter, and the newest reservation got a counter too
W_C4 ==
    /\ resp = Response("create_ticket", "created")
    /\ \E t, u \in tickets :
         /\ t.id = nextId.ticket - 1 /\ Len(t.ticket_number[3]) = 4
         /\ u.id = nextId.ticket - 2 /\ u.ticket_number[3] = Format03d(CounterLimit)

-----------------------------------------------------------------------------
(* The license counters                                                    *)

LicenseIds == 1..MaxLicenses
InstallationIds == 1..MaxInstalls

\* The license views and the REST viewsets, one request at a time
NextLicense ==
    \/ \E l \in LicenseIds \cup {NoRow}, a \in Assets \cup {NoAsset, EmptyAsset} :
          InstallSoftware(l, a)
    \/ \E l \in LicenseIds \cup {NoRow}, i \in InstallationIds \cup {NoRow} :
          UninstallSoftware(l, i)
    \/ \E m \in Counts : CreateLicense(m)
    \/ \E m \in Counts, c \in Counts : ApiCreateLicense(m, c)
    \/ \E l \in LicenseIds \cup {NoRow}, m \in Counts, c \in Counts :
          ApiUpdateLicense(l, m, c)
    \/ \E l \in LicenseIds \cup {NoRow} : ApiDeleteLicense(l)
    \/ \E l \in LicenseIds \cup {NoRow}, a \in Assets \cup {NoAsset} :
          ApiCreateInstallation(l, a)
    \/ \E i \in InstallationIds \cup {NoRow} : ApiDeleteInstallation(i)

SpecLicense == Init /\ [][NextLicense]_vars

\* C2: every SoftwareLicense has current_installations <= max_installations.
C2_WithinMax ==
    \A l \in licenses : l.current_installations <= l.max_installations

-----------------------------------------------------------------------------
(* Seeding the role groups                                                 *)

\* The permission commands and the user admin, in any order
NextSeed ==
    \/ SetupPermissions
    \/ ResetPermissions
    \/ \E u \in {"alice", "bob", NoUser},
          g \in {"IT_Administrators", "End_Users", "Interns"} :
          AssignUserToGroup(u, g)
    \/ \E m \in user_groups : AdminRemoveUserFromGroup(m[1], m[2])

SpecSeed == Init /\ [][NextSeed]_vars

\* the last handler was the seeding command
SeededLast == resp.op = "setup_permissions"

\* C5: a run of setup_permissions on the state a run of it left behind
\* leaves the same Group rows and the same group-to-permission relation,
\* no two groups of one name and no group-permission row twice, and leaves
\* the users' group memberships as they were.
C5_SeedingIdempotent ==
    [][(SeededLast /\ SeededLast') =>
          /\ groups' = groups
          /\ BagToSet(group_permissions') = BagToSet(group_permissions)
          /\ \A e \in BagToSet(group_permissions') :
                group_permissions'[e] = 1
          /\ \A r, q \in groups' : r.name = q.name => r = q
          /\ user_groups' = user_groups]_vars

\* the command ran on groups that all existed, with users in them
W_C5 ==
    /\ resp = Response("setup_permissions", "updated")
    /\ user_groups # {}
    /\ \E e \in BagToSet(group_permissions) : TRUE

-----------------------------------------------------------------------------
(* The life of a REST token                                                *)

Keys == 1..MaxTokens

\* Logins, logouts and profile requests of the users, in any order
NextToken ==
    \/ \E u \in {"alice", "bob", NoUser}, present \in BOOLEAN,
          password_ok \in BOOLEAN : ApiLogin(u, present, password_ok)
    \/ \E k \in Keys \cup {NoKey} : ApiLogout(k)
    \/ \E u \in {"alice", "bob"} : ApiLogoutSession(u)
    \/ \E k \in Keys \cup {NoKey} : ApiUserProfile(k)

SpecToken == Init /\ [][NextToken]_vars

\* the last answer was a successful login / logout of user u
LoggedIn(r, u) == r.op = "api_login" /\ r.outcome = "ok" /\ r.user = u
LoggedOut(r, u) == r.op = "api_logout" /\ r.outcome = "ok" /\ r.user = u

\* C8: a user has at most one token at any time; api_login returns the
\* user's existing token when there is one and creates one otherwise; after
\* a successful api_logout the user has no token, and gets one only by a
\* successful api_login; a deleted token authenticates no request.
C8_TokenLifecycle ==
    /\ [](\A t, q \in tokens : t.user = q.user => t = q)
    /\ [](\A u \in Users : LoggedOut(resp, u) => ~HasToken(tokens, u))
    /\ [](\A k \in revoked : TokenUser(tokens, k) = NoUser)
    /\ [](resp.op = "api_user_profile" /\ resp.outcome = "ok"
             => resp.token \notin revoked)
    /\ [][\A u \in Users :
            /\ LoggedIn(resp', u) =>
                  IF HasToken(tokens, u)
                  THEN /\ tokens' = tokens
                       /\ resp'.token = TokenOf(tokens, u).key
                  ELSE /\ tokens' = tokens \cup
                                     {[key |-> resp'.token, user |-> u]}
                       /\ resp'.token \notin revoked
            /\ (~HasToken(tokens, u) /\ HasToken(tokens', u))
                  => LoggedIn(resp', u)]_vars

\* bob logged out, logged in again and his deleted token was then refused,
\* while alice kept hers
W_C8 ==
    /\ resp = Response("api_user_profile", "unauthorized")
    /\ HasToken(tokens, "alice") /\ HasToken(tokens, "bob")
    /\ \E k \in revoked : k < TokenOf(tokens, "bob").key

-----------------------------------------------------------------------------
(* Sending e-mail                                                          *)

MaxRecipients == 2  \* recipients of one bulk e-mail

Addresses == {"a@itms.local", "b@itms.local"}
TemplateNames == {"booking_approved", "system_notification", "welcome"}

\* the sequences over S of length n
SeqsOfLength(S, n) == [1..n -> S]

\* Calls of the e-mail service, with every way the SMTP sends may end
NextMail ==
    \/ \E a \in Addresses, o \in SmtpOutcomes : CallSendEmail(a, o)
    \/ \E a \in Addresses, t \in TemplateNames, d \in BOOLEAN,
          o \in SmtpOutcomes : CallSendTemplateEmail(a, t, d, o)
    \/ \E n \in 0..MaxRecipients, t \in TemplateNames, d \in BOOLEAN :
          \E rs \in SeqsOfLength(Addresses, n),
             os \in SeqsOfLength(SmtpOutcomes, n) :
              CallSendBulkEmail(rs, t, d, os)

SpecMail == Init /\ [][NextMail]_vars

\* C9: send_email never raises: it returns status "sent" and the recipient
\* when the SMTP send succeeds, and status "failed", the recipient and an
\* error text when the SMTP send raises.
C9_SendEmailNeverRaises ==
    mail.op = "send_email" =>
        /\ mail.end.kind = "returned"
        /\ mail.end.value.to = mail.recipients[1]
        /\ mail.smtp[1] = "ok" =>
              mail.end.value = [status |-> "sent", to |-> mail.recipients[1]]
        /\ mail.smtp[1] # "ok" =>
              /\ mail.end.value.status = "failed"
              /\ mail.end.value.error = mail.smtp[1]

\* send_email was called and the SMTP send raised
W_C9 ==
    /\ mail.op = "send_email"
    /\ mail.smtp[1] = "SMTPConnectError"
    /\ mail.end.kind = "returned"

\* one result per recipient, in recipient order, and a send for each
OnePerRecipient ==
    /\ mail.end.kind = "returned"
    /\ Len(mail.end.value) = Len(mail.recipients)
    /\ \A i \in 1..Len(mail.recipients) :
          /\ mail.end.value[i].to = mail.recipients[i]
          /\ mail.end.value[i].status = "sent" <=> mail.smtp[i] = "ok"
    /\ mail.sends = mail.recipients

\* C10 as stated: send_bulk_email returns one result per recipient, in
\* recipient order, and attempts every recipient, whatever it is called
\* with.
C10_OnePerRecipientAlways ==
    mail.op = "send_bulk_email" => OnePerRecipient

\* C10: called with a template of EMAIL_TEMPLATES that renders with the
\* data, or with no recipients, send_bulk_email returns one result per
\* recipient, in recipient order, and attempts every recipient also after a
\* failed send; called with recipients and another template it raises
\* ValueError, having attempted nobody.
C10_OnePerRecipientOfKnownTemplate ==
    mail.op = "send_bulk_email" =>
        IF mail.recipients = <<>>
           \/ (mail.template \in EMAIL_TEMPLATES /\ mail.renders)
        THEN OnePerRecipient
        ELSE /\ mail.end.kind = "raised"
             /\ mail.template \notin EMAIL_TEMPLATES
                   => mail.end.error = "ValueError"
             /\ mail.sends = <<>>

\* a bulk e-mail whose first send failed and whose second was sent
W_C10 ==
    /\ mail.op = "send_bulk_email"
    /\ Len(mail.recipients) = 2
    /\ mail.smtp[1] # "ok" /\ mail.smtp[2] = "ok"
    /\ mail.end.kind = "returned"
    /\ mail.end.value[2].status = "sent"

\* C11: send_template_email called with a template name that is not in
\* EMAIL_TEMPLATES raises ValueError and calls the SMTP send for nobody.
C11_UnknownTemplateRaises ==
    (mail.op = "send_template_email" /\ mail.template \notin EMAIL_TEMPLATES)
        => /\ mail.end = Raised("ValueError")
           /\ mail.sends = <<>>

\* send_template_email was called with an unknown template name, data that
\* would render and an SMTP server that would accept
W_C11 ==
    /\ mail.op = "send_template_email"
    /\ mail.template = "welcome"
    /\ mail.renders /\ mail.smtp = <<"ok">>
    /\ mail.end.kind = "raised"

-----------------------------------------------------------------------------
(* User management of the prototype API                                    *)

\* Tokens of the super admin, the admin, the manager and the plain user, a
\* well-formed token of nobody, a token of another shape, and no token
TokenInputs ==
    {TokenFor("uuid-1"), TokenFor("uuid-2"), TokenFor("uuid-3"),
     TokenFor("uuid-5"), TokenFor("uuid-0"), <<"bearer", "uuid-1">>, NoToken}

\* the ids of the super admin, of the plain user and of nobody
UserIdInputs == {"uuid-1", "uuid-5", "uuid-0"}

UserUpdateInputs ==
    {UserUpdate("", "", "", {"super_admin"}, {}),
     UserUpdate("neo", "neo@opon.com", "Neo", {"super_admin"}, {}),
     UserUpdate("", "", "", {"user"}, {}),
     UserUpdate("", "", "", {}, {FALSE}),
     UserUpdate("neo", "", "", {}, {})}

LoginInputs ==
    {"super_admin", "user", "neo", "ghost"} \X {"super123", "user123", "wrong"}

RegisterInputs ==
    {<<"user", "new@opon.com">>, <<"newcomer", "user@opon.com">>,
     <<"newcomer", "new@opon.com">>}

\* Calls of the user handlers, in any order, and the passing of time
NextUsers ==
    \/ Tick
    \/ \E l \in LoginInputs : login(l[1], l[2])
    \/ \E r \in RegisterInputs : register(r[1], r[2])
    \/ \E t \in TokenInputs : get_users(t)
    \/ \E id \in UserIdInputs, u \in UserUpdateInputs, t \in TokenInputs :
          update_user(id, u, t)
    \/ \E id \in UserIdInputs, t \in TokenInputs : delete_user(id, t)

SpecUsers == Init /\ [][NextUsers]_vars

\* the stored users whose id a well-formed token carries
Bearers(users, token) ==
    {k \in DOMAIN users : token[1] = "token_" /\ users[k].id = token[2]}

\* C12: GET /api/users is answered with 401 when called without a token or
\* with a token that matches no stored user, and with 403 when called by a
\* user whose role lacks read_user; in these cases it returns no user data
\* and leaves MOCK_USERS as it was.
C12_GetUsersRefusals ==
    [][resp'.op = "get_users" /\ calls' # calls =>
         \E token \in {resp'.request.token} :
           /\ (token = NoToken \/ Bearers(MOCK_USERS, token) = {})
                 => resp'.status = 401
           /\ \A k \in Bearers(MOCK_USERS, token) :
                 "read_user" \notin ROLE_PERMISSIONS[MOCK_USERS[k].role]
                     => resp'.status = 403
           /\ resp'.status \in {401, 403}
                 => resp'.body = NoBody /\ MOCK_USERS' = MOCK_USERS]_vars

\* get_users has refused a user whose role lacks read_user
W_C12 ==
    /\ resp.op = "get_users"
    /\ resp.status = 403
    /\ resp.request.token = TokenFor("uuid-5")

\* the stored users with the username and the password that are active
Admissible(users, username, password) ==
    {k \in DOMAIN users : /\ users[k].username = username
                          /\ users[k].password = password
                          /\ users[k].is_active}

\* C13: login succeeds only when a stored user has the given username and
\* password and is active; every other login attempt is answered with 401
\* and leaves every user's last_login as it was.
C13_LoginOnlyWithCredentials ==
    [][resp'.op = "login" /\ calls' # calls =>
         \E request \in {resp'.request} :
           /\ resp'.status \in {200, 401}
           /\ resp'.status = 200 =>
                 Admissible(MOCK_USERS, request.username,
                            request.password) # {}
           /\ Admissible(MOCK_USERS, request.username,
                         request.password) = {} =>
                 /\ resp'.status = 401
                 /\ DOMAIN MOCK_USERS' = DOMAIN MOCK_USERS
                 /\ \A k \in DOMAIN MOCK_USERS :
                       MOCK_USERS'[k].last_login = MOCK_USERS[k].last_login]_vars

\* login has refused the right password of a deactivated user
W_C13 ==
    /\ resp.op = "login"
    /\ resp.status = 401
    /\ resp.request = [username |-> "user", password |-> "user123"]
    /\ "user" \in DOMAIN MOCK_USERS
    /\ ~MOCK_USERS["user"].is_active
    /\ MOCK_USERS["user"].last_login = NoTime

-----------------------------------------------------------------------------
(* Bookings of the prototype API                                           *)

\* a resource with a pending booking, one with an approved booking, and a
\* resource id that is not stored
ResourceInputs == {"resource_1", "resource_3", "resource_9"}

\* a moment before the clock and the moments where the bookings of the two
\* resources start and end
BookingTimeInputs == {0, 3, 4, 5}

BookingCreateInputs ==
    {BookingCreate(r, s, e) :
        r \in ResourceInputs, s \in BookingTimeInputs, e \in BookingTimeInputs}

BookingIdInputs == {1, 2, 5, 9}

BookingUpdateInputs ==
    {BookingUpdate(NoTime, NoTime, "cancelled"),
     BookingUpdate(5, NoTime, ""),
     BookingUpdate(3, 5, "approved")}

\* Calls of the booking handlers, in any order, and the passing of time
NextBookings ==
    \/ Tick
    \/ \E b \in BookingCreateInputs : create_booking(b)
    \/ \E id \in BookingIdInputs, b \in BookingUpdateInputs :
          update_booking(id, b)
    \/ \E id \in BookingIdInputs, st \in {"approved", "rejected"} :
          approve_booking(id, st)
    \/ \E id \in BookingIdInputs : delete_booking(id)

SpecBookings == Init /\ [][NextBookings]_vars

\* the time ranges [start_time, end_time) of the two share a moment
RangesOverlap(a, b) ==
    /\ a.start_time < a.end_time /\ b.start_time < b.end_time
    /\ a.start_time < b.end_time /\ b.start_time < a.end_time

\* the stored bookings of the request's resource whose range overlaps it
Overlapped(bookings, booking) ==
    {k \in DOMAIN bookings :
        /\ bookings[k].resource_id = booking.resource_id
        /\ RangesOverlap(booking, bookings[k])}

\* create_booking has answered the request
Created(r) == r.op = "create_booking" /\ r.status = 200

\* C14: create_booking rejects a new booking whose time range overlaps an
\* existing booking of the same resource and stores nothing; it stores a new
\* booking of a stored resource that overlaps no existing booking of it.
C14_OverlapRejected ==
    [][resp'.op = "create_booking" /\ calls' # calls =>
         \E booking \in {resp'.request} :
           /\ Overlapped(MOCK_BOOKINGS, booking) # {} =>
                 ~Created(resp') /\ MOCK_BOOKINGS' = MOCK_BOOKINGS
           /\ (/\ booking.resource_id \in DOMAIN MOCK_RESOURCES
               /\ booking.start_time < booking.end_time
               /\ Overlapped(MOCK_BOOKINGS, booking) = {}) =>
                 /\ Created(resp')
                 /\ \E k \in DOMAIN MOCK_BOOKINGS' :
                       /\ MOCK_BOOKINGS'[k].resource_id = booking.resource_id
                       /\ MOCK_BOOKINGS'[k].start_time = booking.start_time
                       /\ MOCK_BOOKINGS'[k].end_time = booking.end_time]_vars

\* C15: create_booking rejects a booking whose start time is before the
\* current time and stores nothing.
C15_PastRejected ==
    [][(/\ resp'.op = "create_booking" /\ calls' # calls
        /\ resp'.request.start_time < now) =>
          ~Created(resp') /\ MOCK_BOOKINGS' = MOCK_BOOKINGS]_vars

\* C16: after any sequence of create_booking and update_booking calls every
\* stored booking has end_time > start_time.
C16_EndAfterStart ==
    \A k \in DOMAIN MOCK_BOOKINGS :
        MOCK_BOOKINGS[k].end_time > MOCK_BOOKINGS[k].start_time

-----------------------------------------------------------------------------
(* Deleting assets and tickets in the prototype API                        *)

AssetIdInputs == {"asset-001", "asset-002", "asset-999"}
TicketIdInputs == {"ticket-001", "ticket-003", "ticket-999"}

\* Calls of the two delete handlers, in any order, and the passing of time
NextRecords ==
    \/ Tick
    \/ \E a \in AssetIdInputs, t \in TokenInputs : delete_asset(a, t)
    \/ \E k \in TicketIdInputs, t \in TokenInputs : delete_ticket(k, t)

SpecRecords == Init /\ [][NextRecords]_vars

\* the two stores hold the same entries but for the one under id
SameBut(store, store2, id) ==
    /\ DOMAIN store2 = DOMAIN store
    /\ \A k \in DOMAIN store \ {id} : store2[k] = store[k]

\* C17: delete_asset and delete_ticket are soft deletes: the asset stays in
\* MOCK_ASSETS with status disposed, the ticket stays in MOCK_TICKETS with
\* status cancelled, no record is removed, and every other stored asset and
\* ticket is unchanged.
C17_SoftDeletes ==
    [][calls' # calls =>
         /\ (resp'.op = "delete_asset" /\ resp'.status = 200) =>
               /\ resp'.request.asset_id \in DOMAIN MOCK_ASSETS'
               /\ MOCK_ASSETS'[resp'.request.asset_id].status = "disposed"
               /\ MOCK_ASSETS'[resp'.request.asset_id].asset_tag =
                     MOCK_ASSETS[resp'.request.asset_id].asset_tag
               /\ SameBut(MOCK_ASSETS, MOCK_ASSETS', resp'.request.asset_id)
               /\ MOCK_TICKETS' = MOCK_TICKETS
         /\ (resp'.op = "delete_ticket" /\ resp'.status = 200) =>
               /\ resp'.request.ticket_id \in DOMAIN MOCK_TICKETS'
               /\ MOCK_TICKETS'[resp'.request.ticket_id].status = "cancelled"
               /\ MOCK_TICKETS'[resp'.request.ticket_id].created_by =
                     MOCK_TICKETS[resp'.request.ticket_id].created_by
               /\ SameBut(MOCK_TICKETS, MOCK_TICKETS',
                          resp'.request.ticket_id)
               /\ MOCK_ASSETS' = MOCK_ASSETS
         /\ (resp'.op \in {"delete_asset", "delete_ticket"}
               /\ resp'.status # 200) =>
               MOCK_ASSETS' = MOCK_ASSETS /\ MOCK_TICKETS' = MOCK_TICKETS]_vars

\* an asset was deleted and then a ticket
W_C17 ==
    /\ resp.op = "delete_ticket" /\ resp.status = 200
    /\ MOCK_TICKETS[resp.request.ticket_id].status = "cancelled"
    /\ \E a \in DOMAIN MOCK_ASSETS :
          MOCK_ASSETS[a].status = "disposed" /\ MOCK_ASSETS[a].disposed_by # ""

-----------------------------------------------------------------------------
(* Roles in the user management of the prototype API                       *)

\* the keys of the users with role super_admin
SuperAdmins(users) == {k \in DOMAIN users : users[k].role = "super_admin"}

\* the step is a call of update_user
UpdateUserStep == resp'.op = "update_user" /\ calls' # calls

\* the roles of the callers a token stands for (none, or one)
CallerRoles(users, token) == {users[k].role : k \in Bearers(users, token)}

\* Steps in which a user becomes super admin are update_user calls of a
\* super admin
OnlySuperAdminsPromote ==
    ~(SuperAdmins(MOCK_USERS') \subseteq SuperAdmins(MOCK_USERS)) =>
        /\ UpdateUserStep
        /\ CallerRoles(MOCK_USERS, resp'.request.token) = {"super_admin"}

\* the step is a call of update_user that asks for the super_admin role and
\* comes from a user with another role
ForeignPromotion ==
    /\ UpdateUserStep
    /\ "super_admin" \in resp'.request.user_update.role
    /\ CallerRoles(MOCK_USERS, resp'.request.token) # {}
    /\ "super_admin" \notin CallerRoles(MOCK_USERS, resp'.request.token)

\* C18 as stated: update_user makes a user super admin only when the caller
\* is a super admin, a caller with any other role that requests it is
\* answered with 403, and no call of a caller that is not a super admin
\* increases the set of super admins.
C18_ForeignPromotionAlways403 ==
    [][/\ OnlySuperAdminsPromote
       /\ ForeignPromotion => resp'.status = 403]_vars

\* C18: update_user makes a user super admin only when the caller is a
\* super admin; a caller with any other role that requests it is answered
\* with 403, or with 404 when the caller has update_user and no stored user
\* has the id; no call of a caller that is not a super admin increases the
\* set of super admins.
C18_OnlySuperAdminAssigns ==
    [][/\ OnlySuperAdminsPromote
       /\ ForeignPromotion =>
             \E request \in {resp'.request} :
               IF /\ \A r \in CallerRoles(MOCK_USERS, request.token) :
                       "update_user" \in ROLE_PERMISSIONS[r]
                  /\ \A k \in DOMAIN MOCK_USERS :
                       MOCK_USERS[k].id # request.user_id
               THEN resp'.status = 404
               ELSE resp'.status = 403]_vars

\* the admin asked for the super_admin role for the plain user and got 403
W_C18 ==
    /\ resp.op = "update_user"
    /\ resp.status = 403
    /\ resp.request.token = TokenFor("uuid-2")
    /\ resp.request.user_id = "uuid-5"
    /\ "super_admin" \in resp.request.user_update.role
    /\ MOCK_USERS["user"].role = "user"

\* C19: after any sequence of register, update_user and delete_user calls
\* MOCK_USERS holds at least one active user with role super_admin.
C19_ActiveSuperAdminRemains ==
    \E k \in DOMAIN MOCK_USERS :
        MOCK_USERS[k].role = "super_admin" /\ MOCK_USERS[k].is_active

\* C20: an update_user call answered with 401, 403 or 404 leaves the stored
\* record of the target user as it was.
C20_FailedUpdateChangesNothing ==
    [][(UpdateUserStep /\ resp'.status \in {401, 403, 404}) =>
          MOCK_USERS' = MOCK_USERS]_vars

-----------------------------------------------------------------------------
(* Status changes in reservation_detail_view                               *)

\* forms for one asset that start and end around the last moment of the clock
DetailForms == Forms({5}, {1}, {TRUE}, MaxNow..(MaxNow + 2))

\* the reservations posted to: the first two and one that is never stored
DetailIdInputs == {1, 2, MaxReservations + 1}

\* the statuses posted: two choices and one that is no choice
StatusInputs == {"cancelled", "approved", "archived"}

\* Reservations are created by one user and their status is posted to the
\* detail view by her, by another user and by a staff user, while time passes
NextDetail ==
    \/ Tick
    \/ \E f \in DetailForms : CreateReservation("alice", f)
    \/ \E u \in Users, id \in DetailIdInputs, st \in StatusInputs :
          ReservationDetailPost(u, id, st)

SpecDetail == Init /\ [][NextDetail]_vars

\* the step is a POST of a user who is not staff to the detail view
NonStaffPost ==
    /\ resp'.op = "reservation_detail"
    /\ resp' # resp \/ reservations' # reservations
    /\ ~IsStaff(resp'.user)

\* C21: in reservation_detail_view a non-staff user changes a reservation
\* only by setting the status of a reservation they reserved themselves to
\* cancelled while its status is pending or approved and its start is in
\* the future; every other POST of a non-staff user leaves the reservations
\* unchanged; approved_by is only ever a staff user.
C21_NonStaffOnlyCancelsOwn ==
    /\ [][(NonStaffPost /\ reservations' # reservations) =>
            \E r \in reservations :
              /\ r.id = resp'.reservation_id
              /\ resp'.status = "cancelled"
              /\ r.reserved_by = resp'.user
              /\ r.status \in {"pending", "approved"}
              /\ r.start_datetime > now
              /\ reservations' = (reservations \ {r})
                                   \cup {[r EXCEPT !.status = "cancelled"]}]_vars
    /\ [](\A r \in reservations :
             r.approved_by # NoUser => IsStaff(r.approved_by))

\* a user cancelled their own reservation after a staff user approved it
W_C21 ==
    /\ resp.op = "reservation_detail"
    /\ resp.outcome = "updated"
    /\ ~IsStaff(resp.user)
    /\ \E r \in reservations :
          /\ r.id = resp.reservation_id
          /\ r.reserved_by = resp.user
          /\ r.status = "cancelled"
          /\ r.approved_by = "staff"

-----------------------------------------------------------------------------
(* Approved and confirmed bookings of one resource                         *)

\* the stored bookings that hold their time slot
Holding(bookings) ==
    {k \in DOMAIN bookings : bookings[k].status \in {"approved", "confirmed"}}

\* C22: after any sequence of create_booking, update_booking,
\* approve_booking and delete_booking calls from the initial sample bookings,
\* no two stored bookings of the same resource that both have status
\* approved or confirmed overlap in time.
C22_NoApprovedOverlap ==
    \A j \in Holding(MOCK_BOOKINGS), k \in Holding(MOCK_BOOKINGS) :
        (j # k /\ MOCK_BOOKINGS[j].resource_id = MOCK_BOOKINGS[k].resource_id)
            => ~RangesOverlap(MOCK_BOOKINGS[j], MOCK_BOOKINGS[k])

-----------------------------------------------------------------------------
(* The ids of new records                                                  *)

\* C23: creating a record never overwrites or removes a stored record: after
\* any interleaving of creates and deletes the id create_booking generates
\* is not the id of a stored booking, every stored booking stays as it is
\* and the store grows by exactly one on every successful create.
C23_CreateKeepsRecords ==
    [][(resp'.op = "create_booking" /\ calls' # calls /\ Created(resp')) =>
          /\ resp'.body.id \notin DOMAIN MOCK_BOOKINGS
          /\ \A k \in DOMAIN MOCK_BOOKINGS :
                k \in DOMAIN MOCK_BOOKINGS' /\ MOCK_BOOKINGS'[k] = MOCK_BOOKINGS[k]
          /\ Cardinality(DOMAIN MOCK_BOOKINGS')
                = Cardinality(DOMAIN MOCK_BOOKINGS) + 1]_vars

-----------------------------------------------------------------------------
(* The audit trail                                                         *)

\* the limits asked of get_audit_logs
LimitInputs == {-1, 0, 2, AuditCap}

\* Entries are logged and the trail is read, in any order
NextAudit ==
    \/ log_activity
    \/ \E limit \in LimitInputs : get_audit_logs(limit)

SpecAudit == Init /\ [][NextAudit]_vars

\* the entries n, n - 1, ..., n - k + 1
NewestFirst(n, k) == [i \in 1..k |-> LogEntry(n + 1 - i)]

\* MOCK_AUDIT_LOGS holds at most AuditCap entries, newest first, and they are
\* the most recent entries logged
AuditLogKeepsNewest ==
    /\ Len(MOCK_AUDIT_LOGS) <= AuditCap
    /\ MOCK_AUDIT_LOGS =
          NewestFirst(logged, IF logged < AuditCap THEN logged ELSE AuditCap)

\* get_audit_logs answers at most limit entries (none for a limit below 0),
\* the first of the trail
AuditLogsWithinLimit ==
    [][(resp'.op = "get_audit_logs"
        /\ <<resp, MOCK_AUDIT_LOGS>>' # <<resp, MOCK_AUDIT_LOGS>>) =>
          /\ Len(resp'.body) <= (IF resp'.request.limit > 0
                                  THEN resp'.request.limit ELSE 0)
          /\ resp'.body = SubSeq(MOCK_AUDIT_LOGS', 1, Len(resp'.body))]_vars

\* C24: after any sequence of log_activity calls MOCK_AUDIT_LOGS holds at
\* most 1000 entries, ordered newest first, and they are exactly the most
\* recent entries logged; get_audit_logs with limit n returns at most n
\* entries, the newest first.
C24_AuditTrailNewestFirst == []AuditLogKeepsNewest /\ AuditLogsWithinLimit

\* the trail is full and its oldest entries were dropped
AuditLogOverflowed == logged > AuditCap /\ Len(MOCK_AUDIT_LOGS) = AuditCap

-----------------------------------------------------------------------------
(* The permissions of the seeded groups                                    *)

\* the Permission rows a code of PERMISSION_GROUPS names: for a wildcard the
\* app's permissions of the action, else the app's permission of the codename
Named(code) ==
    IF code.name = "*"
    THEN {p \in Permissions :
             /\ ContentTypes[p.content_type].app_label = code.app
             /\ p.codename[1] = code.action}
    ELSE {p \in Permissions :
             /\ ContentTypes[p.content_type].app_label = code.app
             /\ p.codename = <<code.action, code.name>>}

\* the Permission rows the group row `g` holds
Held(g) == {e[2] : e \in {d \in BagToSet(group_permissions) : d[1] = g.id}}

\* C25: after create_groups_and_permissions each group named in
\* PERMISSION_GROUPS holds exactly the existing permissions its list names:
\* for a specific entry the permission of that app with that codename, for a
\* wildcard entry every permission of that app whose codename starts with
\* the action, and no other permission.
C25_GroupsHoldNamedPermissions ==
    SeededLast =>
        \A i \in DOMAIN PERMISSION_GROUPS :
            \E g \in groups :
                /\ g.name = PERMISSION_GROUPS[i].name
                /\ Held(g) = UNION {Named(code) :
                                       code \in PERMISSION_GROUPS[i].permissions}

-----------------------------------------------------------------------------
(* Concurrent installs of one license                                      *)

\* A license is created and two workers each handle one install request,
\* their statements interleaved
NextInstallRace ==
    \/ \E m \in Counts : CreateLicense(m)
    \/ \E p \in Procs, l \in LicenseIds \cup {NoRow},
          a \in Assets \cup {NoAsset, EmptyAsset} : LoadLicense(p, l, a)
    \/ \E p \in Procs : CheckInstall(p)
    \/ \E p \in Procs : InsertInstallation(p)
    \/ \E p \in Procs : SaveLicense(p)

SpecInstallRace == Init /\ [][NextInstallRace]_vars

\* no install request is under way
NoInstallUnderWay == \A p \in Procs : reqs[p].pc \in {"idle", "done"}

\* C26: when install requests of software_license_detail_view for one
\* license and different assets run concurrently, then in every
\* interleaving, once they have ended, the number of SoftwareInstallation
\* rows of the license is at most max_installations and equals
\* current_installations.
C26_ConcurrentInstallsWithinMax ==
    NoInstallUnderWay =>
        \A l \in licenses :
            \E rows \in {Cardinality({i \in installations :
                                         i.software_license = l.id})} :
                /\ rows <= l.max_installations
                /\ rows = l.current_installations

====
